---- MODULE Spec2Model ----
(***************************************************************************)
(* SafeGaze YouTube ads blocker: the payload sanitizer (removeAdData), the *)
(* ytInitialPlayerResponse accessor, and the fetch / XMLHttpRequest        *)
(* wrappers of Layer 1.  The three script bodies of the repository         *)
(* (src/unnamed/part_000 and the two bodies of src/youtube-ads-blocker.js) *)
(* carry the same Layer 1 code; line numbers in comments are those of      *)
(* src/unnamed/part_000.                                                   *)
(*                                                                         *)
(* JavaScript objects live in a heap: a sequence of nodes, a node's        *)
(* identity being its index.  A node is an ordered list of own enumerable  *)
(* properties (key, value, configurable); a value is a scalar or a         *)
(* reference to a node.  Payload values are data, never functions.         *)
(*                                                                         *)
(* removeAdData runs as the machine it is: `stack` holds one frame per     *)
(* active cleanObject call, and one step enters or leaves one call.  The   *)
(* page is single-threaded: while the sanitizer runs nothing else does.    *)
(***************************************************************************)
EXTENDS Integers, Sequences, FiniteSets, TLC

VARIABLES
  heap,      \* the object heap: Seq of [arr, ents]
  heap0,     \* the heap as it was when the payload was handed over
  heap1,     \* the heap as it was when the latest removeAdData call began
  stack,     \* the active cleanObject calls: Seq of [id, keys, j]
  sanPc,     \* "idle", "run" (inside removeAdData), "done" (the call is over)
  sanCaller, \* who called removeAdData: "san", "trap", "fetch", "xhr"
  sanArg,    \* the value removeAdData was called with
  sanRet,    \* the value its `return data` returns
  sanSt,     \* outcome of the latest call: "ok", "TypeError", "RangeError"
  sanSt1,    \* outcome of the call before it
  sanCalls,  \* removeAdData calls made directly on the payload
  ytStored,  \* _ytInitialPlayerResponse, the storage behind the accessor
  trapWrites,      \* assignments to window.ytInitialPlayerResponse so far
  trapLastWritten, \* the value of the latest assignment
  trapThrew,       \* whether the latest assignment threw into the page
  trapRead,        \* [fresh, v]: the page's latest read, fresh until the next write
  ytPrior,         \* the value window.ytInitialPlayerResponse held when the
                   \*   accessor was defined
  fetchCall, \* the wrapped fetch() call in flight: [pc, input, url, resp, read, out, saw]
  xhr,       \* the XMLHttpRequest in flight: [pc, sgUrl, listeners, idx, resp,
             \*   responseText, touched, decoded, overridden, saw]
  env,       \* the document the script is loaded into: [yt, fetch, xhr]
  win,       \* what the script has done to window: [flag, patterns, trap, fetchWraps,
             \*   openWraps, sendWraps, skipper, build, errors, uncaught]
  win1,      \* win as the first load left it
  loads,     \* loads of a script file so far
  build,     \* the detector that runs: "v140" (part_000) or "legacy"
             \*   (youtube-ads-blocker.js)
  det,       \* YouTubeAdSkipper: [lastAdState, consecutiveAdDetections,
             \*   userWasMuted, userPlaybackRate]
  video,     \* the video element: [muted, playbackRate, currentTime, duration]
  dom,       \* the document: [player, stream, adClass, adElem, skip]
  log,       \* the latest processed sample: [pos, was, commit, exit, duration, effects]
  hist,      \* the latest processed samples, oldest first: Seq of [pos, was, commit]
  preAd,     \* the video's [muted, playbackRate] before the latest commit
  resume,    \* the resume timers of the exit branch and the video's paused flag:
             \*   [timers, paused, pending, errors, fired]
  life,      \* YouTubeAdSkipper's lifecycle fields and the timers, observers
             \*   and listeners it has created
  lifeLog,   \* [idle, fresh, first]: cleanup() has returned and init() was not
             \*   called since; a navigation was handled and no sample processed
             \*   since; the latest sample was the first after a navigation
  feed,      \* the feed in the document and the removal timers:
             \*   [items, section, loose, rem]
  feedLog,   \* the reflows of the current burst and the latest removal:
             \*   [ads, reflows, done, last]
  cls        \* the element checkIfSponsored was last called with and what it
             \*   returned: [e, called, verdict]

sanVars == <<heap, heap0, heap1, stack, sanPc, sanCaller, sanArg, sanRet, sanSt,
             sanSt1, sanCalls>>
trapVars == <<ytStored, trapWrites, trapLastWritten, trapThrew, trapRead, ytPrior>>
netVars == <<fetchCall, xhr>>
loadVars == <<env, win, win1, loads>>
detVars == <<build, det, video, dom, log, hist, preAd, resume>>
lifeVars == <<life, lifeLog>>
feedVars == <<feed, feedLog, cls>>
pageVars == <<loadVars, detVars, lifeVars, feedVars>>
vars == <<sanVars, trapVars, netVars, pageVars>>

-----------------------------------------------------------------------------
(* Bounds of the model *)

\* Longest array in a generated payload.
MaxItems == 1
\* Most own properties of the root map of a generated payload.
MaxEnts == 2
\* Deepest chain of {"response": ...} wrappers put around a generated payload.
MaxWrap == 17
\* Frames the engine's call stack holds before it raises RangeError.  Real
\* engines hold thousands; every acyclic payload of the model is shallower.
StackLimit == 24
\* Most removeAdData calls made directly on one payload.
MaxCalls == 2
\* Most assignments to ytInitialPlayerResponse in one run.
MaxWrites == 2
\* Most readystatechange listeners the page registers on one request.
MaxListeners == 2

-----------------------------------------------------------------------------
(* Values and nodes *)

Scalar(s) == [ref |-> 0, s |-> s]
Ref(i) == [ref |-> i, s |-> ""]
Undefined == Scalar("undefined")
Null == Scalar("null")

\* obj && typeof obj === 'object': null is falsy, scalars are not objects.
IsObject(v) == v.ref # 0

HasOwn(node, key) == \E i \in DOMAIN node.ents : node.ents[i].k = key

IndexOfKey(node, key) == CHOOSE i \in DOMAIN node.ents : node.ents[i].k = key

\* obj[key]: the property's value, undefined when obj has no such property.
GetProp(node, key) ==
  IF HasOwn(node, key) THEN node.ents[IndexOfKey(node, key)].v ELSE Undefined

\* delete obj[key] on a configurable property: the other properties keep
\* their values and their order.
DeleteProp(node, key) ==
  [node EXCEPT !.ents = SelectSeq(@, LAMBDA e : e.k # key)]

\* Object.keys(obj): own enumerable keys in property order.
ObjectKeys(node) == [i \in DOMAIN node.ents |-> node.ents[i].k]

-----------------------------------------------------------------------------
(* removeAdData *)

adProps ==
  <<"playerAds", "adPlacements", "adSlots", "ads", "adBreakParams", "companions">>

AdPropSet == {adProps[i] : i \in DOMAIN adProps}

\* DeleteAdProps with a loop that stops at the first registry key it deletes.
RECURSIVE DeleteAdProps_firstOnly(_, _)
DeleteAdProps_firstOnly(node, i) ==
  IF i > Len(adProps) THEN [node |-> node, st |-> "ok"]
  ELSE IF HasOwn(node, "hasOwnProperty") THEN [node |-> node, st |-> "TypeError"]
  ELSE IF ~HasOwn(node, adProps[i]) THEN DeleteAdProps_firstOnly(node, i + 1)
  ELSE IF ~node.ents[IndexOfKey(node, adProps[i])].cfg
       THEN [node |-> node, st |-> "TypeError"]
  ELSE [node |-> DeleteProp(node, adProps[i]), st |-> "ok"]

\* The first loop of cleanObject, from index i on.  obj.hasOwnProperty is
\* looked up on obj itself first: a payload with an own "hasOwnProperty" data
\* property makes the call a TypeError.  The script is strict ('use strict'),
\* so deleting a non-configurable property is a TypeError too.
RECURSIVE DeleteAdProps(_, _)
DeleteAdProps(node, i) ==
  IF i > Len(adProps) THEN [node |-> node, st |-> "ok"]
  ELSE IF HasOwn(node, "hasOwnProperty") THEN [node |-> node, st |-> "TypeError"]
  ELSE IF ~HasOwn(node, adProps[i]) THEN DeleteAdProps(node, i + 1)
  ELSE IF ~node.ents[IndexOfKey(node, adProps[i])].cfg
       THEN [node |-> node, st |-> "TypeError"]
  ELSE DeleteAdProps(DeleteProp(node, adProps[i]), i + 1)

\* The state of a removeAdData call: the heap, the frames, and whether it is
\* still running.  A throw unwinds every frame; the heap keeps the deletions
\* made so far.
SanState(h, s, pc, st) == [heap |-> h, stack |-> s, pc |-> pc, st |-> st]

\* A call cleanObject(obj) made with frames s active, up to the snapshot of
\* its keys: the stack overflows, the first loop throws, or a frame is pushed.
cleanObject(h, s, id) ==
  IF Len(s) >= StackLimit THEN SanState(h, <<>>, "done", "RangeError")
  ELSE LET d == DeleteAdProps(h[id], 1)
           h1 == [h EXCEPT ![id] = d.node]
       IN IF d.st # "ok" THEN SanState(h1, <<>>, "done", d.st)
          ELSE SanState(h1, Append(s, [id |-> id, keys |-> ObjectKeys(d.node), j |-> 1]),
                        "run", "running")

\* The second loop of the innermost cleanObject call, on from its index j:
\* it reads obj[key] live, skips what is not an object, and either calls
\* cleanObject on the next object or ends, which returns to the caller.
CleanKeys(h, s) ==
  LET top == s[Len(s)]
      objs == { i \in top.j..Len(top.keys) : IsObject(GetProp(h[top.id], top.keys[i])) }
  IN IF objs = {}
     THEN IF Len(s) = 1 THEN SanState(h, <<>>, "done", "ok")
          ELSE SanState(h, SubSeq(s, 1, Len(s) - 1), "run", "running")
     ELSE LET i == CHOOSE x \in objs : \A y \in objs : x <= y
          IN cleanObject(h, [s EXCEPT ![Len(s)].j = i + 1],
                         GetProp(h[top.id], top.keys[i]).ref)

\* removeAdData that cleans and returns a copy of the object it was given.
removeAdData_clone(h, data) ==
  IF ~IsObject(data) THEN [call |-> SanState(h, <<>>, "done", "ok"), ret |-> data]
  ELSE [call |-> cleanObject(Append(h, h[data.ref]), <<>>, Len(h) + 1),
        ret |-> Ref(Len(h) + 1)]

\* removeAdData(data) up to its first cleanObject call.
\* [call: the state of the call, ret: what `return data` will return]
removeAdData(h, data) ==
  IF ~IsObject(data) THEN [call |-> SanState(h, <<>>, "done", "ok"), ret |-> data]
  ELSE [call |-> cleanObject(h, <<>>, data.ref), ret |-> data]

\* The variables of a removeAdData call after a step.
SanSet(c) ==
  /\ heap' = c.heap
  /\ stack' = c.stack
  /\ sanPc' = c.pc
  /\ sanSt' = c.st

\* removeAdData(data) begins on heap h, called by `caller`.
SanBegin(caller, h, data) ==
  /\ SanSet(removeAdData(h, data).call)
  /\ sanRet' = removeAdData(h, data).ret
  /\ sanArg' = data
  /\ sanCaller' = caller
  /\ heap1' = h
  /\ sanSt1' = sanSt

\* One step of a running removeAdData.
SanStep ==
  /\ sanPc = "run"
  /\ SanSet(CleanKeys(heap, stack))
  /\ UNCHANGED <<heap0, heap1, sanCaller, sanArg, sanRet, sanSt1, sanCalls, trapVars, netVars, pageVars>>

\* The caller has the result: nothing of the call is left but the heap.
SanRest ==
  /\ stack' = <<>>
  /\ sanPc' = "idle"
  /\ sanCaller' = "none"
  /\ sanArg' = Undefined
  /\ sanRet' = Undefined
  /\ sanSt' = "none"
  /\ sanSt1' = "none"
  /\ heap1' = heap'

-----------------------------------------------------------------------------
(* Payloads handed to removeAdData.  A payload is written as a tree         *)
(* [t, s, ents]: a scalar ("s"), a map ("o") or a sequence ("a"); JSON.parse *)
(* and page code that builds a descriptor allocate one heap node per map or  *)
(* sequence, parents before children.                                        *)

Leaf(s) == [t |-> "s", s |-> s, ents |-> <<>>]
TObj(ents) == [t |-> "o", s |-> "", ents |-> ents]
TArr(ents) == [t |-> "a", s |-> "", ents |-> ents]
Ent(k, v) == [k |-> k, v |-> v]

IdxKey(i) == CASE i = 1 -> "0" [] i = 2 -> "1" [] i = 3 -> "2" [] OTHER -> "3"

PayloadKeys == {"playerAds", "companions", "videoDetails"}

\* Maps with at most max properties, distinct keys from K, values from S.
ObjsOver(K, S, max) ==
  UNION { { TObj(f) : f \in { g \in [1..n -> [k : K, v : S]] :
                                \A i, j \in 1..n : g[i].k = g[j].k => i = j } }
          : n \in 0..max }

\* Sequences of at most MaxItems items from S.
ArrsOver(S) ==
  UNION { { TArr([i \in 1..n |-> Ent(IdxKey(i), f[i])]) : f \in [1..n -> S] }
          : n \in 0..MaxItems }

Trees0 == {Leaf("T")}
\* Inner nodes: a scalar, a map of at most one property, a sequence.
Trees1 == Trees0 \cup ObjsOver(PayloadKeys, Trees0, 1) \cup ArrsOver(Trees0)
\* Roots: a map of at most MaxEnts properties or a sequence of inner nodes.
Trees2 == ObjsOver(PayloadKeys, Trees1, MaxEnts) \cup ArrsOver(Trees1)

\* One probe per registry name, beside a sibling and under a parent that stay;
\* a null sibling exercises the truthiness test of the second loop.
Probes ==
  { TObj(<<Ent(adProps[i], TObj(<<Ent("x", Leaf("T"))>>)),
           Ent("videoDetails", TObj(<<Ent("title", Leaf("T")),
                                      Ent(adProps[i], Leaf("T"))>>)),
           Ent("streamingData", Leaf("null"))>>) : i \in DOMAIN adProps }

TwistBase == ObjsOver(PayloadKeys, Trees0, MaxEnts)

RECURSIVE TreeNodes(_)
TreeNodes(t) ==
  IF t.t = "s" THEN 0
  ELSE 1 + (LET RECURSIVE Sum(_)
                Sum(i) == IF i > Len(t.ents) THEN 0 ELSE TreeNodes(t.ents[i].v) + Sum(i + 1)
            IN Sum(1))

\* What page code can do to an object and JSON cannot express: freeze a node
\* ("lock"), point a property back at the root ("link"), share a node under a
\* second property of the root ("alias"); "shadow" gives a node an own data
\* property named hasOwnProperty, which JSON can express.
SanInputs ==
  { [tree |-> t, wrap |-> 0, tw |-> "none", at |-> 1] :
      t \in Trees2 \cup Probes \cup {Leaf("T"), Leaf("null"), Leaf("undefined")} }
  \cup { [tree |-> t, wrap |-> w, tw |-> "none", at |-> 1] : t \in Probes, w \in 1..MaxWrap }
  \cup UNION { { [tree |-> tw[1], wrap |-> tw[2], tw |-> k, at |-> a] :
                   k \in {"shadow", "lock", "link", "alias"},
                   a \in 1..(TreeNodes(tw[1]) + tw[2]) }
               : tw \in TwistBase \X (0..1) }

RECURSIVE Alloc(_, _), AllocEnts(_, _, _, _)
\* [h: the heap with the tree's nodes appended, v: the tree's value]
Alloc(h, t) ==
  IF t.t = "s" THEN [h |-> h, v |-> Scalar(t.s)]
  ELSE LET id == Len(h) + 1
           h1 == Append(h, [arr |-> t.t = "a", ents |-> <<>>])
       IN [h |-> AllocEnts(h1, id, t.ents, 1), v |-> Ref(id)]

AllocEnts(h, id, ents, i) ==
  IF i > Len(ents) THEN h
  ELSE LET c == Alloc(h, ents[i].v)
           h2 == [c.h EXCEPT ![id].ents =
                     Append(@, [k |-> ents[i].k, v |-> c.v, cfg |-> TRUE])]
       IN AllocEnts(h2, id, ents, i + 1)

\* The nodes of h, each reference moved up by w.
Shift(h, w) ==
  [i \in DOMAIN h |->
     [h[i] EXCEPT !.ents =
        [j \in DOMAIN @ |->
           IF @[j].v.ref = 0 THEN @[j] ELSE [@[j] EXCEPT !.v = Ref(@.ref + w)]]]]

\* The tree inside w nested {"response": ...} maps: the heap and the root.
Wrapped(t, w) ==
  LET a == Alloc(<<>>, t)
      inner == IF IsObject(a.v) THEN Ref(w + 1) ELSE a.v
  IN [h |-> [i \in 1..w |->
               [arr |-> FALSE,
                ents |-> <<[k |-> "response",
                            v |-> IF i < w THEN Ref(i + 1) ELSE inner,
                            cfg |-> TRUE]>>]]
            \o Shift(a.h, w),
      v |-> IF w > 0 THEN Ref(1) ELSE a.v]

Twist(h, tw, at) ==
  CASE tw = "shadow" ->
         [h EXCEPT ![at].ents =
            Append(@, [k |-> "hasOwnProperty", v |-> Scalar("T"), cfg |-> TRUE])]
    [] tw = "lock" ->
         [h EXCEPT ![at].ents = [i \in DOMAIN @ |-> [@[i] EXCEPT !.cfg = FALSE]]]
    [] tw = "link" ->
         [h EXCEPT ![at].ents = Append(@, [k |-> "link", v |-> Ref(1), cfg |-> TRUE])]
    [] tw = "alias" ->
         [h EXCEPT ![1].ents = Append(@, [k |-> "alias", v |-> Ref(at), cfg |-> TRUE])]
    [] OTHER -> h

BuildHeap(in) == Twist(Wrapped(in.tree, in.wrap).h, in.tw, in.at)
RootValue(in) == Wrapped(in.tree, in.wrap).v

-----------------------------------------------------------------------------
(* Reading a heap *)

\* The nodes of S and the nodes one reference away from them; with `kept`,
\* only references held under keys the registry does not name.
Grow(h, kept, S) ==
  S \cup ((UNION { { h[i].ents[j].v.ref :
                       j \in { x \in DOMAIN h[i].ents :
                                 ~kept \/ h[i].ents[x].k \notin AdPropSet } }
                   : i \in S }) \ {0})

Grow2(h, kept, S) == Grow(h, kept, Grow(h, kept, S))
Grow4(h, kept, S) == Grow2(h, kept, Grow2(h, kept, S))
Grow8(h, kept, S) == Grow4(h, kept, Grow4(h, kept, S))
Grow16(h, kept, S) == Grow8(h, kept, Grow8(h, kept, S))

Root(v) == IF IsObject(v) THEN {v.ref} ELSE {}

\* Nodes at most 16 references below value v.
Within16(h, v) == Grow16(h, FALSE, Root(v))

\* Nodes at most 15 references below v on a path that crosses no registry key.
KeptWithin15(h, v) ==
  Grow8(h, TRUE, Grow4(h, TRUE, Grow2(h, TRUE, Grow(h, TRUE, Root(v)))))

\* Every node below value v (heaps of the model hold fewer than 32 nodes).
Reach(h, v) == Grow16(h, FALSE, Grow16(h, FALSE, Root(v)))

NonAd(ents) == SelectSeq(ents, LAMBDA e : e.k \notin AdPropSet)

\* The tree below value v, read the way JSON.stringify walks it.
RECURSIVE TreeOf(_, _)
TreeOf(h, v) ==
  IF ~IsObject(v) THEN Leaf(v.s)
  ELSE [t |-> IF h[v.ref].arr THEN "a" ELSE "o", s |-> "",
        ents |-> [i \in DOMAIN h[v.ref].ents |->
                    Ent(h[v.ref].ents[i].k, TreeOf(h, h[v.ref].ents[i].v))]]

\* The heap is one plain tree below its first node, as JSON.parse builds it:
\* every property configurable, every reference to a later node, and every
\* node but the first referenced exactly once.
PlainTree(h) ==
  /\ \A n \in DOMAIN h : \A j \in DOMAIN h[n].ents :
       h[n].ents[j].cfg /\ (h[n].ents[j].v.ref = 0 \/ h[n].ents[j].v.ref > n)
  /\ \A m \in DOMAIN h : m > 1 =>
       Cardinality(UNION { { <<n, j>> : j \in { x \in DOMAIN h[n].ents :
                                                    h[n].ents[x].v.ref = m } }
                           : n \in DOMAIN h }) = 1

HasAdKey(h, v) == \E n \in Reach(h, v) : \E k \in AdPropSet : HasOwn(h[n], k)

\* ents is what is left of ents0 after deleting some keys: the properties
\* that stay keep key, value, attributes and relative order.
OnlyDeleted(ents, ents0) ==
  LET kept == {ents[i].k : i \in DOMAIN ents}
  IN ents = SelectSeq(ents0, LAMBDA e : e.k \in kept)

-----------------------------------------------------------------------------
(* Response bodies.  A text is empty, something that is not JSON, or the    *)
(* JSON text of a tree, written compactly or with insignificant white       *)
(* space (ws).  JSON.parse builds fresh nodes; JSON.stringify writes the    *)
(* compact text.                                                            *)

JsonText(tree, ws) == [kind |-> "json", tree |-> tree, ws |-> ws]
GarbageText == [kind |-> "garbage", tree |-> Leaf(""), ws |-> FALSE]
EmptyText == [kind |-> "empty", tree |-> Leaf(""), ws |-> FALSE]

\* JSONparse that decodes a text that is not JSON as null instead of throwing.
JSONparse_lenient(text) ==
  IF text.kind = "json"
  THEN [ok |-> TRUE, h |-> Alloc(<<>>, text.tree).h, v |-> Alloc(<<>>, text.tree).v]
  ELSE [ok |-> TRUE, h |-> <<>>, v |-> Null]

\* JSON.parse(text): [ok, h, v]; ~ok is a SyntaxError.
JSONparse(text) ==
  IF text.kind = "json"
  THEN [ok |-> TRUE, h |-> Alloc(<<>>, text.tree).h, v |-> Alloc(<<>>, text.tree).v]
  ELSE [ok |-> FALSE, h |-> <<>>, v |-> Undefined]

JSONstringify(h, v) == JsonText(TreeOf(h, v), FALSE)

RECURSIVE TreeHasAdKey(_)
TreeHasAdKey(t) ==
  /\ t.t # "s"
  /\ \E i \in DOMAIN t.ents :
       (t.t = "o" /\ t.ents[i].k \in AdPropSet) \/ TreeHasAdKey(t.ents[i].v)

TextHasAdKey(text) == text.kind = "json" /\ TreeHasAdKey(text.tree)

NetTrees ==
  { TObj(<<Ent("playerAds", TObj(<<Ent("x", Leaf("T"))>>)),
           Ent("videoDetails", TObj(<<Ent("title", Leaf("T"))>>))>>),
    TObj(<<Ent("videoDetails", TObj(<<Ent("title", Leaf("T"))>>))>>),
    TObj(<<Ent("hasOwnProperty", Leaf("T")), Ent("playerAds", Leaf("T"))>>),
    TArr(<<Ent("0", TObj(<<Ent("adSlots", Leaf("T"))>>))>>),
    TObj(<<Ent("ads", Leaf("T")), Ent("title", Leaf("u00e9"))>>),
    Leaf("null") }

Bodies == {EmptyText, GarbageText} \cup { JsonText(t, ws) : t \in NetTrees, ws \in BOOLEAN }

\* A response's content-type header; "none" when the header is absent.
ContentTypes == {"none", "application/json", "application/json; charset=UTF-8", "text/plain"}

\* contentType && contentType.indexOf('application/json') !== -1
IsJsonCT(ct) == ct \in {"application/json", "application/json; charset=UTF-8"}

\* Sizes of texts.  A string scalar is a one-character string: "T" is the
\* letter T, "u00e9" is the letter e with an acute accent (U+00E9), which is
\* one UTF-16 code unit and two UTF-8 bytes.  Keys are ASCII.
CharSize(s, bytes) == IF s = "u00e9" /\ bytes THEN 2 ELSE 1

\* The size of the compact JSON text of a tree: in UTF-8 bytes, or in UTF-16
\* code units (what String.prototype.length counts).
RECURSIVE TreeSize(_, _)
TreeSize(t, bytes) ==
  IF t.t = "s" THEN (IF t.s = "null" THEN 4 ELSE 2 + CharSize(t.s, bytes))
  ELSE LET RECURSIVE Members(_)
           Members(i) ==
             IF i > Len(t.ents) THEN 0
             ELSE (IF i > 1 THEN 1 ELSE 0)
                  + (IF t.t = "o" THEN Len(t.ents[i].k) + 3 ELSE 0)
                  + TreeSize(t.ents[i].v, bytes) + Members(i + 1)
       IN 2 + Members(1)

TextSize(text, bytes) ==
  CASE text.kind = "empty" -> 0
    [] text.kind = "garbage" -> 1
    [] OTHER -> TreeSize(text.tree, bytes) + (IF text.ws THEN 1 ELSE 0)

\* text.length
Units(text) == TextSize(text, FALSE)

\* The number of bytes of the body a Response made from text carries.
Bytes(text) == TextSize(text, TRUE)

\* A response: status line, headers (content-type, content-length, and etag
\* standing for every other header) and body text.
Statuses == {200, 403}
StatusText(status) == IF status = 200 THEN "OK" ELSE "Forbidden"

Responses ==
  { [status |-> st, statusText |-> StatusText(st), ctype |-> ct, clen |-> Bytes(b),
     etag |-> "W/1", body |-> b] : st \in Statuses, ct \in ContentTypes, b \in Bodies }
NoResp ==
  [status |-> 200, statusText |-> "OK", ctype |-> "none", clen |-> 0, etag |-> "W/1",
   body |-> EmptyText]

\* new Response(modifiedText, {status, statusText, headers}) where headers is
\* a copy of the original's with content-length set to modifiedText.length.
NewResponse(response, modifiedText) ==
  [response EXCEPT !.body = modifiedText, !.clen = Units(modifiedText)]

-----------------------------------------------------------------------------
(* URLs.  A URL is a sequence of parts (origin, path, query); a marker is   *)
(* in the URL, url.indexOf(marker) !== -1, when it is in one of the parts.  *)

Hosts == {"https://www.youtube.com", "https://rr1.googlevideo.com"}
Paths == {"/youtubei/v1/player", "/youtubei/v1/next", "/youtubei/v1/browse",
          "/get_video_info", "/videoplayback"}
Queries == {"&from=/next", "?cdn=googlevideo.com"}

Urls == { <<h, p>> : h \in Hosts, p \in Paths }
        \cup { <<h, p, q>> : h \in Hosts, p \in Paths, q \in Queries }

MarkersIn(part) ==
  CASE part = "https://rr1.googlevideo.com" -> {"googlevideo.com"}
    [] part = "?cdn=googlevideo.com" -> {"googlevideo.com"}
    [] part = "/youtubei/v1/player" -> {"/youtubei/v1/player"}
    [] part = "/youtubei/v1/next" -> {"/next"}
    [] part = "&from=/next" -> {"/next"}
    [] part = "/youtubei/v1/browse" -> {"/youtubei/v1/browse"}
    [] part = "/get_video_info" -> {"/get_video_info"}
    [] OTHER -> {}

Contains(url, marker) == \E i \in DOMAIN url : marker \in MarkersIn(url[i])

\* PlayerGate without the exclusion of the continuation endpoint.
PlayerGate_noNext(url) == Contains(url, "/youtubei/v1/player")

\* url.indexOf('/youtubei/v1/player') !== -1 && url.indexOf('/next') === -1
PlayerGate(url) == Contains(url, "/youtubei/v1/player") /\ ~Contains(url, "/next")

\* url.indexOf('googlevideo.com') !== -1
MediaHost(url) == Contains(url, "googlevideo.com")

-----------------------------------------------------------------------------
(* window.fetch *)

\* What page code passes as fetch's input: a string, a URL object, a Request
\* (or any object with a url property), an object without one, or null.
FetchInputs ==
  { [kind |-> k, url |-> u] : k \in {"string", "URL", "Request"}, u \in Urls }
  \cup { [kind |-> "bare", url |-> <<>>], [kind |-> "null", url |-> <<>>] }

\* typeof input === 'string' ? input : input instanceof URL ? input.toString() : input.url
\* [def: whether url is a string, u]
UrlOf(input) ==
  IF input.kind \in {"string", "URL", "Request"}
  THEN [def |-> TRUE, u |-> input.url]
  ELSE [def |-> FALSE, u |-> <<>>]

Delivered(orig, resp) == [orig |-> orig, resp |-> resp]

FetchIdle ==
  [pc |-> "idle", input |-> [kind |-> "bare", url |-> <<>>],
   url |-> [def |-> FALSE, u |-> <<>>], resp |-> NoResp, read |-> FALSE,
   out |-> Delivered(TRUE, NoResp), saw |-> EmptyText]

\* window.fetch(input, init), up to the value it returns: the original
\* fetch's promise for a media URL, else that promise with the continuation
\* attached.  Reading input.url of null throws before anything is sent.
FetchCall(input) ==
  /\ fetchCall.pc = "idle" /\ xhr.pc = "idle" /\ sanPc = "idle"
  /\ fetchCall' =
       IF input.kind = "null"
       THEN [fetchCall EXCEPT !.pc = "threw", !.input = input]
       ELSE LET url == UrlOf(input)
            IN [fetchCall EXCEPT
                  !.input = input, !.url = url,
                  !.pc = IF url.def /\ MediaHost(url.u) THEN "passthru" ELSE "pending"]
  /\ UNCHANGED <<sanVars, trapVars, xhr, pageVars>>

\* The original fetch resolves with resp.  Passed through, the caller has the
\* original response; else the first continuation runs: content-type test,
\* URL test, then clone().text() or the original response.
FetchRespond(resp) ==
  /\ fetchCall.pc \in {"passthru", "pending"}
  /\ fetchCall' =
       IF fetchCall.pc = "passthru"
       THEN [fetchCall EXCEPT !.pc = "settled", !.resp = resp, !.out = Delivered(TRUE, resp)]
       ELSE IF ~IsJsonCT(resp.ctype)
       THEN [fetchCall EXCEPT !.pc = "settled", !.resp = resp, !.out = Delivered(TRUE, resp)]
       ELSE IF fetchCall.url.def /\ PlayerGate(fetchCall.url.u)
       THEN [fetchCall EXCEPT !.pc = "reading", !.resp = resp, !.read = TRUE]
       ELSE [fetchCall EXCEPT !.pc = "settled", !.resp = resp, !.out = Delivered(TRUE, resp)]
  /\ UNCHANGED <<sanVars, trapVars, xhr, pageVars>>

\* cloned.text() resolves: JSON.parse; a SyntaxError (inner catch) gives the
\* original response, else removeAdData(data) is called.
FetchText ==
  /\ fetchCall.pc = "reading"
  /\ LET p == JSONparse(fetchCall.resp.body)
     IN IF ~p.ok
        THEN /\ fetchCall' = [fetchCall EXCEPT !.pc = "settled",
                                !.out = Delivered(TRUE, fetchCall.resp)]
             /\ UNCHANGED sanVars
        ELSE /\ fetchCall' = [fetchCall EXCEPT !.pc = "cleaning"]
             /\ SanBegin("fetch", p.h, p.v)
             /\ UNCHANGED <<heap0, sanCalls>>
  /\ UNCHANGED <<trapVars, xhr, pageVars>>

\* removeAdData is over: JSON.stringify(data) in a new Response with the
\* original's headers; when it threw, .catch gives the original response.
FetchTextEnd ==
  /\ fetchCall.pc = "cleaning" /\ sanPc = "done"
  /\ fetchCall' =
       IF sanSt = "ok"
       THEN [fetchCall EXCEPT !.pc = "settled",
               !.out = Delivered(FALSE, NewResponse(fetchCall.resp,
                                                    JSONstringify(heap, sanArg)))]
       ELSE [fetchCall EXCEPT !.pc = "settled", !.out = Delivered(TRUE, fetchCall.resp)]
  /\ heap' = <<>>
  /\ SanRest
  /\ UNCHANGED <<heap0, sanCalls, trapVars, xhr, pageVars>>

\* The page's own continuation reads the body of the response it was given.
FetchPageRead ==
  /\ fetchCall.pc = "settled"
  /\ fetchCall' = [fetchCall EXCEPT !.pc = "read", !.saw = fetchCall.out.resp.body]
  /\ UNCHANGED <<sanVars, trapVars, xhr, pageVars>>

\* The call is over; the wrapper keeps nothing of it.
FetchDone ==
  /\ fetchCall.pc \in {"read", "threw"}
  /\ fetchCall' = FetchIdle
  /\ UNCHANGED <<sanVars, trapVars, xhr, pageVars>>

-----------------------------------------------------------------------------
(* XMLHttpRequest *)

XhrIdle ==
  [pc |-> "idle", sgUrl |-> <<>>, listeners |-> <<>>, idx |-> 1, resp |-> NoResp,
   responseText |-> EmptyText, touched |-> FALSE, decoded |-> FALSE,
   overridden |-> FALSE, saw |-> <<>>]

\* open(method, url, ...): this._sgUrl = url ? url.toString() : ''
XhrOpen(url) ==
  /\ fetchCall.pc = "idle" /\ xhr.pc = "idle" /\ sanPc = "idle"
  /\ xhr' = [xhr EXCEPT !.pc = "opened", !.sgUrl = url]
  /\ UNCHANGED <<sanVars, trapVars, fetchCall, pageVars>>

\* Page code registers a readystatechange listener, before or after send().
XhrPageListen ==
  /\ xhr.pc \in {"opened", "sent"}
  /\ Cardinality({i \in DOMAIN xhr.listeners : xhr.listeners[i] = "page"}) < MaxListeners
  /\ xhr' = [xhr EXCEPT !.listeners = Append(@, "page")]
  /\ UNCHANGED <<sanVars, trapVars, fetchCall, pageVars>>

\* send(): register the sanitizing listener when the URL passes, then the
\* original send.
XhrSend ==
  /\ xhr.pc = "opened"
  /\ xhr' = [xhr EXCEPT
               !.pc = "sent",
               !.listeners = IF PlayerGate(xhr.sgUrl) THEN Append(@, "sg") ELSE @]
  /\ UNCHANGED <<sanVars, trapVars, fetchCall, pageVars>>

\* The listener at idx has run: the next one is due, or the event is over.
NextListener(x) ==
  [x EXCEPT !.idx = @ + 1,
            !.pc = IF x.idx + 1 > Len(x.listeners) THEN "done" ELSE "dispatch"]

\* A page listener reads responseText.
PageListener(x) == [x EXCEPT !.saw = Append(@, x.responseText)]

\* The request completes with resp: readyState 4, and readystatechange is
\* dispatched to the listeners in the order they were registered.
XhrLoad(resp) ==
  /\ xhr.pc = "sent"
  /\ xhr' = [xhr EXCEPT !.pc = IF xhr.listeners = <<>> THEN "done" ELSE "dispatch",
                        !.idx = 1, !.resp = resp, !.responseText = resp.body]
  /\ UNCHANGED <<sanVars, trapVars, fetchCall, pageVars>>

\* The listener at idx runs.  The sanitizing listener reads responseText;
\* when it is not empty it parses it (a SyntaxError is caught) and calls
\* removeAdData(data).
XhrDispatch ==
  /\ xhr.pc = "dispatch" /\ sanPc = "idle"
  /\ IF xhr.listeners[xhr.idx] = "page"
     THEN xhr' = NextListener(PageListener(xhr)) /\ UNCHANGED sanVars
     ELSE IF xhr.responseText.kind = "empty"
     THEN xhr' = NextListener([xhr EXCEPT !.touched = TRUE]) /\ UNCHANGED sanVars
     ELSE LET p == JSONparse(xhr.responseText)
          IN IF ~p.ok
             THEN xhr' = NextListener([xhr EXCEPT !.touched = TRUE]) /\ UNCHANGED sanVars
             ELSE /\ xhr' = [xhr EXCEPT !.touched = TRUE, !.decoded = TRUE]
                  /\ SanBegin("xhr", p.h, p.v)
                  /\ UNCHANGED <<heap0, sanCalls>>
  /\ UNCHANGED <<trapVars, fetchCall, pageVars>>

\* removeAdData is over in the sanitizing listener: responseText is redefined
\* as JSON.stringify(data); when it threw, the catch swallows the error.
XhrSgEnd ==
  /\ xhr.pc = "dispatch" /\ sanPc = "done"
  /\ xhr' =
       IF sanSt = "ok"
       THEN NextListener([xhr EXCEPT !.overridden = TRUE,
                                     !.responseText = JSONstringify(heap, sanArg)])
       ELSE NextListener(xhr)
  /\ heap' = <<>>
  /\ SanRest
  /\ UNCHANGED <<heap0, sanCalls, trapVars, fetchCall, pageVars>>

\* Page code reads responseText after the event (a load handler, a poll).
XhrPageRead ==
  /\ xhr.pc = "done"
  /\ xhr' = [PageListener(xhr) EXCEPT !.pc = "read"]
  /\ UNCHANGED <<sanVars, trapVars, fetchCall, pageVars>>

XhrDone ==
  /\ xhr.pc = "read"
  /\ xhr' = XhrIdle
  /\ UNCHANGED <<sanVars, trapVars, fetchCall, pageVars>>

-----------------------------------------------------------------------------
(* window.ytInitialPlayerResponse *)

\* Values page code assigns: any object it holds, a string, null, undefined.
TrapValues == { Ref(n) : n \in DOMAIN heap } \cup {Scalar("T"), Null, Undefined}

\* set: the setter calls removeAdData(value).
TrapSet(value) ==
  /\ sanPc = "idle"
  /\ trapWrites < MaxWrites
  /\ SanBegin("trap", heap, value)
  /\ trapLastWritten' = value
  /\ trapWrites' = trapWrites + 1
  /\ trapRead' = [trapRead EXCEPT !.fresh = FALSE]
  /\ UNCHANGED <<heap0, sanCalls, ytStored, trapThrew, ytPrior, netVars, pageVars>>

\* removeAdData is over in the setter: _ytInitialPlayerResponse = its result.
\* When it threw, the assignment throws into the page and the storage keeps
\* its value.
TrapSetEnd ==
  /\ sanPc = "done" /\ sanCaller = "trap"
  /\ ytStored' = IF sanSt = "ok" THEN sanRet ELSE ytStored
  /\ trapThrew' = (sanSt # "ok")
  /\ heap' = heap
  /\ SanRest
  /\ UNCHANGED <<heap0, sanCalls, trapWrites, trapLastWritten, trapRead, ytPrior,
                 netVars, pageVars>>

\* get: return _ytInitialPlayerResponse
TrapGet ==
  /\ sanPc = "idle"
  /\ trapRead' = [fresh |-> TRUE, v |-> ytStored]
  /\ UNCHANGED <<sanVars, ytStored, trapWrites, trapLastWritten, trapThrew, ytPrior,
                 netVars, pageVars>>

-----------------------------------------------------------------------------
(* The sanitizer applied to a payload *)

\* A caller that holds the payload calls removeAdData on its root, the first
\* time or again once the call before is over.
SanCall ==
  /\ sanPc \in {"idle", "done"}
  /\ sanCalls < MaxCalls
  /\ SanBegin("san", heap, sanArg)
  /\ sanCalls' = sanCalls + 1
  /\ UNCHANGED <<heap0, trapVars, netVars, pageVars>>

-----------------------------------------------------------------------------
(* Loading the script.  A script file is evaluated from its first statement *)
(* to its last; youtube-ads-blocker.js holds two bodies, evaluated in       *)
(* order.  Line numbers are those of src/unnamed/part_000.                  *)

\* Most loads of a script file into one document.
MaxLoads == 3

ScriptFiles == {"part_000", "youtube-ads-blocker.js"}

\* Documents: window.ytInitialPlayerResponse is absent, an own configurable
\* property, or a non-configurable one; window.fetch can be assigned or not;
\* XMLHttpRequest is usable, undefined, or has a read-only open or send.
Envs ==
  [yt : {"absent", "configurable", "locked"},
   fetch : {"writable", "readonly"},
   xhr : {"ok", "absent", "openLocked", "sendLocked"}]

\* window before any load.
WinFresh ==
  [flag |-> FALSE, patterns |-> 0, trap |-> 0, fetchWraps |-> 0, openWraps |-> 0,
   sendWraps |-> 0, skipper |-> 0, build |-> "none", errors |-> {}, uncaught |-> FALSE]

\* InitGuard that never finds the flag set.
InitGuard_never(w) == FALSE

\* if (window.__SAFEGAZE_YT_AD_BLOCKER_INITIALIZED__) return;
InitGuard(w) == w.flag

\* Layer 1A: Object.defineProperty throws on a non-configurable property;
\* the catch logs.
Layer1A(w, e) ==
  IF e.yt = "locked" THEN [w EXCEPT !.errors = @ \cup {"trap"}]
  ELSE [w EXCEPT !.trap = @ + 1]

\* Layer 1B: the assignment to window.fetch throws (strict mode) when the
\* property cannot be written.
Layer1B(w, e) ==
  IF e.fetch = "readonly" THEN [w EXCEPT !.errors = @ \cup {"fetch"}]
  ELSE [w EXCEPT !.fetchWraps = @ + 1]

\* Layer 1C: reading XMLHttpRequest.prototype throws when XMLHttpRequest is
\* undefined; the assignment to open or to send throws when it is read-only,
\* the second after open has been wrapped.
Layer1C(w, e) ==
  CASE e.xhr = "ok" -> [w EXCEPT !.openWraps = @ + 1, !.sendWraps = @ + 1]
    [] e.xhr = "sendLocked" -> [w EXCEPT !.openWraps = @ + 1, !.errors = @ \cup {"xhr"}]
    [] OTHER -> [w EXCEPT !.errors = @ \cup {"xhr"}]

\* InstallLayers in which the first layer that throws ends the script.
InstallLayers_abort(w, e) ==
  IF e.yt = "locked" THEN [w EXCEPT !.uncaught = TRUE]
  ELSE IF e.fetch = "readonly" THEN [Layer1A(w, e) EXCEPT !.uncaught = TRUE]
  ELSE IF e.xhr # "ok" THEN [Layer1B(Layer1A(w, e), e) EXCEPT !.uncaught = TRUE]
  ELSE Layer1C(Layer1B(Layer1A(w, e), e), e)

\* The three try blocks, one after the other.
InstallLayers(w, e) == Layer1C(Layer1B(Layer1A(w, e), e), e)

\* One evaluation of a script body: the guard, the flag, the pattern export,
\* the three layers, then the detector object and its export.
EvalBody(w, e, body) ==
  IF InitGuard(w) THEN w
  ELSE LET w1 == [w EXCEPT !.flag = TRUE, !.patterns = @ + 1]
           w2 == InstallLayers(w1, e)
       IN IF w2.uncaught THEN w2
          ELSE [w2 EXCEPT !.skipper = @ + 1, !.build = body]

\* A script file is loaded into the document.
Load(file) ==
  /\ loads < MaxLoads
  /\ win' = IF file = "part_000" THEN EvalBody(win, env, "part_000")
            ELSE EvalBody(EvalBody(win, env, "js_1"), env, "js_2")
  /\ win1' = IF loads = 0 THEN win' ELSE win1
  /\ loads' = loads + 1
  /\ UNCHANGED <<env, sanVars, trapVars, netVars, detVars, lifeVars, feedVars>>

-----------------------------------------------------------------------------
(* The ad detector, YouTubeAdSkipper.  part_000 holds the v1.4.0 detector;  *)
(* the two bodies of youtube-ads-blocker.js hold the same earlier detector, *)
(* here "legacy".  Times are in tenths of a second.                         *)

\* Samples the history keeps.
Window == 3

\* video.playbackRate as the user may have set it, and the forced rate.
Rates == {1, 2, 16}

\* video.duration: NaN (no metadata yet), 15 s, 30 s.
NaN == -1
Durations == {NaN, 150, 300}

\* The corroborating elements: none, .video-ads.ytp-ad-module (as
\* .ytp-ad-player-overlay and .ytp-ad-text, which both detectors look for),
\* .ytp-ad-preview-container (which only v1.4.0 looks for).
AdElems == {"none", "module", "preview"}

\* The skip control: absent, in the document but not displayed
\* (offsetParent null), displayed.
SkipStates == {"none", "hidden", "visible"}

\* v1.4.0 isDefinitelyInAd(): the ad class and one of the four elements.
isDefinitelyInAd(d) == d.adClass /\ d.adElem \in {"module", "preview"}

\* The earlier detector's isNowInAd: the ad class or one of three elements.
isNowInAd_legacy(d) == d.adClass \/ d.adElem = "module"

\* clickSkipButton(): whether a displayed skip control was found and clicked.
clickSkipButton(d) == d.skip = "visible"

\* video.duration && !isNaN(video.duration)
HasDuration(v) == v.duration # NaN /\ v.duration # 0

\* v1.4.0 trySkipAd(video): [video, effects].
trySkipAd(v, d) ==
  IF clickSkipButton(d) THEN [video |-> v, effects |-> <<"tryClick", "click">>]
  ELSE LET v1 == IF v.playbackRate < 16 THEN [v EXCEPT !.playbackRate = 16] ELSE v
           seek == HasDuration(v1) /\ v1.duration < 300
                   /\ v1.currentTime < v1.duration - 5
           v2 == IF seek THEN [v1 EXCEPT !.currentTime = v1.duration - 1] ELSE v1
       IN [video |-> v2,
           effects |-> <<"tryClick">>
                       \o (IF v.playbackRate < 16 THEN <<"rate">> ELSE <<>>)
                       \o (IF seek THEN <<"seek">> ELSE <<>>)
                       \o <<"overlays">>]

\* What one handleAdDetection call leaves: the detector, the video, and what
\* it did.
Sampled(dt, v, pos, was, commit, exit, effects) ==
  [det |-> dt, video |-> v,
   log |-> [pos |-> pos, was |-> was, commit |-> commit, exit |-> exit,
            duration |-> v.duration, effects |-> effects]]

\* Enough consecutive detections to take the ad for real.
Confirmed_first(n) == n >= 1
Confirmed(n) == ~(n < 2)

\* v1.4.0 handleAdDetection() with the player and the video present.
handleAdDetection(dt, v, d) ==
  LET now == isDefinitelyInAd(d)
      was == dt.lastAdState
  IN IF now /\ ~was
     THEN LET n == dt.consecutiveAdDetections + 1
          IN IF ~Confirmed(n)
             THEN Sampled([dt EXCEPT !.consecutiveAdDetections = n], v,
                          now, was, FALSE, FALSE, <<>>)
             ELSE LET t == trySkipAd([v EXCEPT !.muted = TRUE], d)
                  IN Sampled([dt EXCEPT !.consecutiveAdDetections = n,
                                        !.userWasMuted = v.muted,
                                        !.userPlaybackRate = v.playbackRate,
                                        !.lastAdState = TRUE],
                             t.video, now, was, TRUE, FALSE,
                             <<"save", "mute">> \o t.effects)
     ELSE IF ~now /\ was
     THEN Sampled([dt EXCEPT !.consecutiveAdDetections = 0, !.lastAdState = FALSE],
                  [v EXCEPT !.muted = dt.userWasMuted,
                            !.playbackRate = dt.userPlaybackRate],
                  now, was, FALSE, TRUE, <<"restore", "resumeTimer">>)
     ELSE IF now /\ was
     THEN LET t == trySkipAd(v, d)
          IN Sampled(dt, t.video, now, was, FALSE, FALSE, t.effects)
     ELSE Sampled([dt EXCEPT !.consecutiveAdDetections = 0], v,
                  now, was, FALSE, FALSE, <<>>)

\* The earlier detector's handleAdDetection() with the player and the video
\* present (src/youtube-ads-blocker.js:461-533 and 1371-1443).
handleAdDetection_legacy(dt, v, d) ==
  LET now == isNowInAd_legacy(d)
      was == dt.lastAdState
      click == IF clickSkipButton(d) THEN <<"tryClick", "click">> ELSE <<"tryClick">>
  IN IF now /\ ~was
     THEN Sampled([dt EXCEPT !.userWasMuted = v.muted, !.lastAdState = TRUE],
                  [v EXCEPT !.muted = TRUE,
                            !.currentTime = IF HasDuration(v) THEN v.duration ELSE @,
                            !.playbackRate = 16],
                  now, was, TRUE, FALSE,
                  <<"save", "mute">> \o (IF HasDuration(v) THEN <<"seek">> ELSE <<>>)
                  \o <<"rate">> \o click \o <<"overlays">>)
     ELSE IF ~now /\ was
     THEN Sampled([dt EXCEPT !.lastAdState = FALSE],
                  [v EXCEPT !.muted = dt.userWasMuted, !.playbackRate = 1],
                  now, was, FALSE, TRUE, <<"restore", "resumeTimer">>)
     ELSE IF now /\ was
     THEN LET seek == HasDuration(v) /\ v.currentTime < v.duration - 3
          IN Sampled(dt, IF seek THEN [v EXCEPT !.currentTime = v.duration] ELSE v,
                     now, was, FALSE, FALSE,
                     (IF seek THEN <<"seek">> ELSE <<>>) \o click \o <<"overlays">>)
     ELSE Sampled(dt, v, now, was, FALSE, FALSE, <<>>)

\* The history with one more sample, the oldest dropped beyond Window.
Remember(h, l) ==
  LET h1 == Append(h, [pos |-> l.pos, was |-> l.was, commit |-> l.commit])
  IN IF Len(h1) > Window THEN SubSeq(h1, 2, Len(h1)) ELSE h1

\* document.getElementById('movie_player') and
\* document.querySelector('video.video-stream') both find an element.
Present(d) == d.player /\ d.stream

\* handleAdDetection() with the player and the video present.
\* Resume timers pending at once.
MaxResume == 2

\* No resume timer, the video playing, no play() promise pending, no error
\* reported, no timer fired yet.
ResumeFresh ==
  [timers |-> 0, paused |-> FALSE, pending |-> 0, errors |-> 0,
   fired |-> [any |-> FALSE, paused |-> FALSE, play |-> FALSE]]

\* setTimeout(function() {...}, 100) of the exit branch (50 in the earlier
\* detector).
Scheduled(R, exit) == IF exit THEN [R EXCEPT !.timers = @ + 1] ELSE R

\* The timer's function: play() if the video is paused now.
resumeTimer_always(R) ==
  [R EXCEPT !.timers = @ - 1, !.pending = @ + 1,
            !.fired = [any |-> TRUE, paused |-> R.paused, play |-> TRUE]]
resumeTimer(R) ==
  IF R.paused
  THEN [R EXCEPT !.timers = @ - 1, !.pending = @ + 1,
                 !.fired = [any |-> TRUE, paused |-> TRUE, play |-> TRUE]]
  ELSE [R EXCEPT !.timers = @ - 1,
                 !.fired = [any |-> TRUE, paused |-> FALSE, play |-> FALSE]]

\* The promise of play() settles: fulfilled, the video plays; rejected, the
\* catch function runs and does nothing.
playSettled_uncaught(R, ok) ==
  IF ok THEN [R EXCEPT !.pending = @ - 1, !.paused = FALSE]
  ELSE [R EXCEPT !.pending = @ - 1, !.errors = @ + 1]
playSettled(R, ok) ==
  IF ok THEN [R EXCEPT !.pending = @ - 1, !.paused = FALSE]
  ELSE [R EXCEPT !.pending = @ - 1]

Handle ==
  /\ Present(dom)
  /\ LET r == IF build = "v140" THEN handleAdDetection(det, video, dom)
              ELSE handleAdDetection_legacy(det, video, dom)
     IN /\ r.log.exit => resume.timers < MaxResume
        /\ resume' = Scheduled(resume, r.log.exit)
        /\ det' = r.det
        /\ video' = r.video
        /\ log' = r.log
        /\ hist' = Remember(hist, r.log)
        /\ preAd' = IF r.log.commit
                    THEN [muted |-> video.muted, playbackRate |-> video.playbackRate]
                    ELSE preAd
  /\ lifeLog' = [lifeLog EXCEPT !.fresh = FALSE, !.first = lifeLog.fresh]
  /\ UNCHANGED <<build, dom, life, sanVars, trapVars, netVars, loadVars, feedVars>>

\* A poll timer of setupAdDetection fires.
Sample == life.intervals > 0 /\ Handle

\* The class attribute of the player is written and an observer of
\* setupAdDetection is notified.
Observed == life.observers > 0 /\ Handle

\* Either call while the player or the video is missing: it returns at once.
SampleAbsent ==
  /\ life.intervals > 0 \/ life.observers > 0
  /\ ~Present(dom)
  /\ UNCHANGED vars

\* The page changes the player's class, the ad elements, or removes or
\* restores the player or the video.
Signal(player, stream, adClass, adElem) ==
  /\ dom' = [dom EXCEPT !.player = player, !.stream = stream,
                        !.adClass = adClass, !.adElem = adElem]
  /\ dom' # dom
  /\ UNCHANGED <<build, det, video, log, hist, preAd, resume, sanVars, trapVars,
                 netVars, loadVars, lifeVars, feedVars>>

\* A resume timer fires.
FireResume ==
  /\ resume.timers > 0
  /\ resume.paused => resume.pending < MaxResume
  /\ resume' = resumeTimer(resume)
  /\ UNCHANGED <<build, det, video, dom, log, hist, preAd, sanVars, trapVars,
                 netVars, loadVars, lifeVars, feedVars>>

\* The promise of a play() call settles.
PlaySettled(ok) ==
  /\ resume.pending > 0
  /\ resume' = playSettled(resume, ok)
  /\ UNCHANGED <<build, det, video, dom, log, hist, preAd, sanVars, trapVars,
                 netVars, loadVars, lifeVars, feedVars>>

\* The user or the player pauses the video, or the user starts it again.
Pause(paused) ==
  /\ resume.paused # paused
  /\ resume' = [resume EXCEPT !.paused = paused]
  /\ UNCHANGED <<build, det, video, dom, log, hist, preAd, sanVars, trapVars,
                 netVars, loadVars, lifeVars, feedVars>>

-----------------------------------------------------------------------------
(* The detector's lifecycle: init, waitForPlayer, setupAdDetection,         *)
(* observeYouTubeNavigation, cleanup, destroy.  The observers and timers    *)
(* the detector creates are counted; a field of the object holds at most    *)
(* the one created last.                                                    *)

\* Navigation listeners up to which init() and navigations are followed.
MaxNavListeners == 2

\* The object as declared, and nothing created yet.
\*   observer, checkInterval, feedObserver: the field holds an object or id
\*   observers, intervals, feedObservers: observers observing, timers running
\*   debounce: _debouncedReflowTimeout: 0 none, 1 due, n + 1 due in n steps of 50 ms
\*   waits: promises of waitForPlayer still polling
\*   promises, resolved: promises of waitForPlayer created, calls of resolve()
\*   micro: reactions of resolved promises not yet run
\*   listeners: listeners of each navigation event on window
LifeFresh ==
  [isInitialized |-> FALSE, watch |-> TRUE, listeners |-> 0,
   observer |-> FALSE, observers |-> 0,
   checkInterval |-> FALSE, intervals |-> 0,
   feedObserver |-> FALSE, feedObservers |-> 0,
   debounce |-> 0, waits |-> 0, micro |-> 0, promises |-> 0, resolved |-> 0,
   styles |-> 0]

isWatchPage(L) == L.watch

setupAdDetection(L, d) ==
  IF ~d.player THEN L
  ELSE [L EXCEPT !.observer = TRUE, !.observers = @ + 1,
                 !.checkInterval = TRUE, !.intervals = @ + 1]

\* The reaction init() attaches to the promise of waitForPlayer.
PlayerReady(L, d) ==
  [setupAdDetection(L, d) EXCEPT !.isInitialized = TRUE, !.micro = @ - 1]

\* The microtask checkpoint: every queued reaction runs.
RECURSIVE Drain(_, _)
Drain(L, d) == IF L.micro = 0 THEN L ELSE Drain(PlayerReady(L, d), d)

\* One run of checkPlayer for a promise that polls: it resolves, or polls on.
checkPlayer_again(L, d) ==
  IF Present(d) THEN [L EXCEPT !.micro = @ + 1, !.resolved = @ + 1] ELSE L
checkPlayer(L, d) ==
  IF Present(d) THEN [L EXCEPT !.waits = @ - 1, !.micro = @ + 1, !.resolved = @ + 1]
  ELSE L

\* waitForPlayer(): a new promise and the first run of checkPlayer.
waitForPlayer(L, d) == checkPlayer([L EXCEPT !.waits = @ + 1, !.promises = @ + 1], d)

observeYouTubeNavigation(L) == [L EXCEPT !.listeners = @ + 1]

\* setupFeedAdMonitoring() on a page without sponsored content.
setupFeedAdMonitoring(L) ==
  [L EXCEPT !.feedObserver = TRUE, !.feedObservers = @ + 1]

\* The style block: nothing if the document holds an element with the id,
\* else a new style element under head or documentElement.  life.styles is
\* the number of elements with the id in the document.
injectAdBlockingCSS_always(L) == [L EXCEPT !.styles = @ + 1]
injectAdBlockingCSS(L) ==
  IF L.styles > 0 THEN L ELSE [L EXCEPT !.styles = @ + 1]

init(L, d, b) ==
  IF L.isInitialized THEN L
  ELSE IF b = "v140" THEN observeYouTubeNavigation(waitForPlayer(L, d))
  ELSE LET L1 == setupFeedAdMonitoring(injectAdBlockingCSS(L))
           L2 == IF isWatchPage(L1) THEN waitForPlayer(L1, d)
                 ELSE [L1 EXCEPT !.isInitialized = TRUE]
       IN observeYouTubeNavigation(L2)

cleanup_keepRef(L) ==
  [L EXCEPT !.observers = IF L.observer THEN @ - 1 ELSE @,
            !.feedObservers = IF L.feedObserver THEN @ - 1 ELSE @,
            !.intervals = IF L.checkInterval THEN @ - 1 ELSE @,
            !.debounce = 0]
cleanup(L) ==
  [L EXCEPT !.observers = IF L.observer THEN @ - 1 ELSE @, !.observer = FALSE,
            !.feedObservers = IF L.feedObserver THEN @ - 1 ELSE @,
            !.feedObserver = FALSE,
            !.intervals = IF L.checkInterval THEN @ - 1 ELSE @,
            !.checkInterval = FALSE,
            !.debounce = 0]

destroy_only(L) == cleanup(L)
destroy(L) == [cleanup(L) EXCEPT !.isInitialized = FALSE]

\* One listener of yt-navigate-finish or popstate, on S = [life, det].
navListener_keep(S, d, b) ==
  LET L1 == [cleanup(S.life) EXCEPT !.isInitialized = FALSE]
  IN [life |-> IF b = "v140" /\ ~isWatchPage(L1) THEN L1 ELSE init(L1, d, b),
      det |-> S.det]
navListener(S, d, b) ==
  LET L1 == [cleanup(S.life) EXCEPT !.isInitialized = FALSE]
  IN IF b = "v140"
     THEN [life |-> IF isWatchPage(L1) THEN init(L1, d, b) ELSE L1,
           det |-> [S.det EXCEPT !.lastAdState = FALSE,
                                 !.consecutiveAdDetections = 0]]
     ELSE [life |-> init(L1, d, b),
           det |-> [S.det EXCEPT !.lastAdState = FALSE]]

\* The dispatch of a navigation event to the n listeners registered when it
\* starts.  popstate comes from the browser, and the reactions queued by a
\* listener run before the next listener; yt-navigate-finish is dispatched by
\* a script of the page, and they run when that script has returned.
RECURSIVE Dispatch(_, _, _, _, _)
Dispatch(S, n, evt, d, b) ==
  IF n = 0 THEN [S EXCEPT !.life = Drain(S.life, d)]
  ELSE LET S1 == navListener(S, d, b)
           S2 == IF evt = "popstate" THEN [S1 EXCEPT !.life = Drain(S1.life, d)] ELSE S1
       IN Dispatch(S2, n - 1, evt, d, b)

\* The script from its guard to its last lines: in v1.4.0 the style block is
\* injected first; then init() on the pages it initializes on, and in
\* v1.4.0 one more observeYouTubeNavigation().
AutoInit(b, d, watch) ==
  LET F == [LifeFresh EXCEPT !.watch = watch]
      L0 == IF b = "v140" THEN injectAdBlockingCSS(F) ELSE F
  IN Drain(IF b = "v140"
           THEN observeYouTubeNavigation(IF watch THEN init(L0, d, b) ELSE L0)
           ELSE init(L0, d, b), d)

LifeRest == UNCHANGED <<build, video, dom, log, hist, preAd, resume, sanVars,
                        trapVars,
                        netVars, loadVars, feedVars>>

\* The page navigates: the location changes and the event is dispatched.
Navigate(evt, toWatch) ==
  /\ life.listeners \in 1..MaxNavListeners
  /\ LET S == Dispatch([life |-> [life EXCEPT !.watch = toWatch], det |-> det],
                       life.listeners, evt, dom, build)
     IN life' = S.life /\ det' = S.det
  /\ lifeLog' = [idle |-> (build = "v140" /\ ~toWatch), fresh |-> TRUE, first |-> FALSE]
  /\ LifeRest

\* A timer of waitForPlayer fires.
CheckPlayer ==
  /\ life.waits > 0
  /\ life' = Drain(checkPlayer(life, dom), dom)
  /\ UNCHANGED <<det, lifeLog>> /\ LifeRest

\* Calls through window.__SAFEGAZE_YT_AD_SKIPPER__.
InitCall ==
  /\ life.listeners <= MaxNavListeners
  /\ life' = Drain(init(life, dom, build), dom)
  /\ lifeLog' = [lifeLog EXCEPT !.idle = FALSE]
  /\ UNCHANGED det /\ LifeRest

Cleanup ==
  /\ life' = cleanup(life)
  /\ lifeLog' = [lifeLog EXCEPT !.idle = TRUE]
  /\ UNCHANGED det /\ LifeRest

Destroy ==
  /\ life' = destroy(life)
  /\ lifeLog' = [lifeLog EXCEPT !.idle = TRUE]
  /\ UNCHANGED det /\ LifeRest

-----------------------------------------------------------------------------
(* The feed monitor of the second body of youtube-ads-blocker.js:           *)
(* setupFeedAdMonitoring, cleanupAdParentContainers, debouncedGridReflow.   *)
(* Time passes in steps of 50 ms.  A timer is due, or due in n steps.       *)

\* Grid items (ytd-rich-item-renderer) the page inserts.
MaxFeedItems == 2
Items == 1..MaxFeedItems

\* Sponsored insertions in one debounce window.
MaxBurst == 3

\* setTimeout(..., 150): due in three steps.
DebounceSteps == 4

\* A grid item: where it is (not inserted yet, child of the grid, child of the
\* section, removed from its parent), whether it carries data-sg-ad-removed,
\* whether the latest task set the attribute, and whether an ad container or
\* an ad badge was ever inserted with it or into it.
NoItem == [at |-> "absent", marked |-> FALSE, fresh |-> FALSE, ad |-> FALSE]

\* The feed with one section (ytd-rich-section-renderer) and no item, no
\* sponsored node outside a grid item, no removal timer.
FeedFresh ==
  [items |-> [i \in Items |-> NoItem], section |-> "in", loose |-> "absent",
   rem |-> [i \in Items |-> [due |-> 0, soon |-> 0]]]
FeedLogNone ==
  [ads |-> 0, reflows |-> 0, done |-> FALSE,
   last |-> [sec |-> FALSE, clean |-> FALSE, gone |-> FALSE]]

\* The characters of a text, one string each; "middot" is U+00B7.
UpperCase ==
  <<"A", "B", "C", "D", "E", "F", "G", "H", "I", "J", "K", "L", "M", "N", "O", "P",
    "Q", "R", "S", "T", "U", "V", "W", "X", "Y", "Z">>
LowerCase ==
  <<"a", "b", "c", "d", "e", "f", "g", "h", "i", "j", "k", "l", "m", "n", "o", "p",
    "q", "r", "s", "t", "u", "v", "w", "x", "y", "z">>
Range(f) == {f[k] : k \in DOMAIN f}

\* String.prototype.toLowerCase and String.prototype.includes.
toLowerCase(s) ==
  [k \in 1..Len(s) |->
     IF s[k] \in Range(UpperCase)
     THEN LowerCase[CHOOSE n \in DOMAIN UpperCase : UpperCase[n] = s[k]]
     ELSE s[k]]
includes(s, t) ==
  \E k \in 0..(Len(s) - Len(t)) : SubSeq(s, k + 1, k + Len(t)) = t

\* The texts the script looks for.
Txt_Sponsored == <<"S", "p", "o", "n", "s", "o", "r", "e", "d">>
Txt_AdDot == <<"A", "d", " ", "middot">>
Txt_sponsored == <<"s", "p", "o", "n", "s", "o", "r", "e", "d">>
Txt_ad == <<"a", "d">>

\* Elements the page inserts: the tag, the tags of the ancestors, textContent,
\* the first descendant that is a badge (badge-shape or ad-badge-view-model),
\* and the aria-label attribute (<<>> when there is none).
Tags ==
  {"YTD-AD-SLOT-RENDERER", "YTD-IN-FEED-AD-LAYOUT-RENDERER", "AD-BADGE-VIEW-MODEL",
   "YTD-RICH-ITEM-RENDERER", "BUTTON"}
AncestorSets ==
  {{}, {"YTD-RICH-ITEM-RENDERER"}, {"YTD-AD-SLOT-RENDERER", "YTD-RICH-ITEM-RENDERER"},
   {"YTD-IN-FEED-AD-LAYOUT-RENDERER"}}
Texts == {<<>>, Txt_Sponsored, <<"A", "d", " ", "middot", " ", "0", ":", "1", "5">>, <<"W", "a", "t", "c", "h", " ", "l", "a", "t", "e", "r">>}
Badges == {"none", "badge-shape", "ad-badge-view-model"}
Labels == {<<>>, Txt_Sponsored, <<"A", "D">>, <<"A", "d", ":", " ", "s", "h", "o", "p">>, <<"D", "o", "w", "n", "l", "o", "a", "d">>, <<"A", "d", "d", " ", "t", "o", " ", "q", "u", "e", "u", "e">>, <<"P", "l", "a", "y">>}
Elements ==
  [tag : Tags, anc : AncestorSets, text : Texts, badge : Badges, label : Labels]

\* checkIfSponsored(element), strategy by strategy.
isAdTag(e) ==
  e.tag \in {"YTD-AD-SLOT-RENDERER", "YTD-IN-FEED-AD-LAYOUT-RENDERER",
             "AD-BADGE-VIEW-MODEL"}
hasAdAncestor(e) ==
  (e.anc \cup {e.tag}) \cap {"YTD-AD-SLOT-RENDERER", "YTD-IN-FEED-AD-LAYOUT-RENDERER"} # {}
hasBadgeText(e) ==
  (includes(e.text, Txt_Sponsored) \/ includes(e.text, Txt_AdDot)) /\ e.badge # "none"
hasAdLabel(e) ==
  \/ includes(toLowerCase(e.label), Txt_sponsored)
  \/ includes(toLowerCase(e.label), Txt_ad)
checkIfSponsored(e) ==
  IF isAdTag(e) THEN TRUE
  ELSE IF hasAdAncestor(e) THEN TRUE
  ELSE IF hasBadgeText(e) THEN TRUE
  ELSE hasAdLabel(e)

\* No element classified yet.
NodeNone ==
  [e |-> [tag |-> "BUTTON", anc |-> {}, text |-> <<>>, badge |-> "none", label |-> <<>>],
   called |-> FALSE, verdict |-> FALSE]

\* What the page does with item i in one task: nothing, insert it into the grid
\* or into the section, with sponsored content or without, or add sponsored
\* content to the item already there, or add a button with a label to it.
Inserts ==
  {"skip", "grid-ad", "grid-plain", "section-ad", "section-plain", "badge", "label"}

CanInsert(F, i, what) ==
  CASE what = "skip" -> TRUE
    [] what \in {"grid-ad", "grid-plain"} -> F.items[i].at = "absent"
    [] what \in {"section-ad", "section-plain"} ->
         F.items[i].at = "absent" /\ F.section = "in"
    [] what \in {"badge", "label"} ->
         \/ F.items[i].at = "grid"
         \/ F.items[i].at = "section" /\ F.section = "in"

\* The node the observer is handed for an insertion.
NodeOf(what) ==
  CASE what \in {"grid-ad", "section-ad"} ->
         [tag |-> "YTD-RICH-ITEM-RENDERER", anc |-> {}, text |-> <<>>,
          badge |-> "none", label |-> <<>>]
    [] what \in {"grid-plain", "section-plain"} ->
         [tag |-> "YTD-RICH-ITEM-RENDERER", anc |-> {}, text |-> <<"W", "a", "t", "c", "h", " ", "l", "a", "t", "e", "r">>,
          badge |-> "badge-shape", label |-> <<>>]
    [] what = "badge" ->
         [tag |-> "AD-BADGE-VIEW-MODEL", anc |-> {"YTD-RICH-ITEM-RENDERER"},
          text |-> Txt_Sponsored, badge |-> "none", label |-> <<>>]
    [] what = "label" ->
         [tag |-> "BUTTON", anc |-> {"YTD-RICH-ITEM-RENDERER"}, text |-> <<>>,
          badge |-> "none", label |-> <<"D", "o", "w", "n", "l", "o", "a", "d">>]

\* The node holds an element of the selector list of the callback.
hasAdChild(what) == what \in {"grid-ad", "section-ad"}

\* The callback calls cleanupAdParentContainers for the insertion: the node is
\* classified as sponsored, or it holds an ad container.
Sponsored(what) ==
  what # "skip" /\ (checkIfSponsored(NodeOf(what)) \/ hasAdChild(what))

\* The item after the page's insertion.
Inserted(it, what) ==
  CASE what = "grid-ad" -> [it EXCEPT !.at = "grid", !.ad = TRUE]
    [] what = "grid-plain" -> [it EXCEPT !.at = "grid"]
    [] what = "section-ad" -> [it EXCEPT !.at = "section", !.ad = TRUE]
    [] what = "section-plain" -> [it EXCEPT !.at = "section"]
    [] what = "badge" -> [it EXCEPT !.ad = TRUE]
    [] OTHER -> it

\* cleanupAdParentContainers(adElement) up to its setTimeout, for an element
\* whose closest grid item is i: the marker, and a removal timer.
cleanupAdParentContainers_now(F, i) ==
  [F EXCEPT !.items[i].marked = TRUE, !.items[i].fresh = TRUE,
            !.items[i].at = "out"]
cleanupAdParentContainers(F, i) ==
  [F EXCEPT !.items[i].marked = TRUE, !.items[i].fresh = TRUE,
            !.rem[i].soon = @ + 1]

\* The observer's callback over the added nodes, item by item.
RECURSIVE Classify(_, _, _)
Classify(F, batch, i) ==
  IF i > MaxFeedItems THEN F
  ELSE Classify(IF Sponsored(batch[i]) THEN cleanupAdParentContainers(F, i) ELSE F,
                batch, i + 1)

\* Sponsored nodes of a batch; a sponsored node outside any grid item counts.
AdsIn(batch, loose) ==
  Cardinality({i \in Items : Sponsored(batch[i])}) + (IF loose THEN 1 ELSE 0)

\* No attribute was set by the task that ends.
Settled(F) == [F EXCEPT !.items = [i \in Items |-> [F.items[i] EXCEPT !.fresh = FALSE]]]

FeedRest == UNCHANGED <<loadVars, detVars, sanVars, trapVars, netVars, cls>>

\* One task of the page inserts nodes under document.body; the observer is
\* notified of all of them together and classifies them; if any was
\* sponsored it calls debouncedGridReflow().
Insert(batch, loose) ==
  /\ life.feedObservers > 0
  /\ \A i \in Items : CanInsert(feed, i, batch[i])
  /\ loose => feed.loose = "absent"
  /\ AdsIn(batch, loose) > 0 \/ \E i \in Items : batch[i] # "skip"
  /\ (IF life.debounce = 0 THEN 0 ELSE feedLog.ads) + AdsIn(batch, loose) <= MaxBurst
  /\ LET F0 == Settled(feed)
         F1 == [F0 EXCEPT !.items = [i \in Items |-> Inserted(F0.items[i], batch[i])],
                          !.loose = IF loose THEN "in" ELSE @]
         n == AdsIn(batch, loose)
     IN /\ feed' = Classify(F1, batch, 1)
        /\ life' = IF n > 0 THEN [life EXCEPT !.debounce = DebounceSteps] ELSE life
        /\ feedLog' =
             IF n = 0 THEN feedLog
             ELSE IF life.debounce = 0
             THEN [feedLog EXCEPT !.ads = n, !.reflows = 0, !.done = FALSE]
             ELSE [feedLog EXCEPT !.ads = @ + n]
  /\ UNCHANGED lifeLog /\ FeedRest

\* The grid items of the section of item i that neither carry the marker nor
\* are item i.
nonAdItems_none(F, i) == {}
nonAdItems(F, i) ==
  {j \in Items : F.items[j].at = "section" /\ ~F.items[j].marked /\ j # i}

\* The timer of cleanupAdParentContainers for item i fires.
FireRemoval(i) ==
  /\ feed.rem[i].due > 0
  /\ LET F0 == Settled(feed)
         richSection == F0.items[i].at = "section"
         shouldRemoveSection == richSection /\ nonAdItems(F0, i) = {}
     IN /\ feed' = [F0 EXCEPT !.rem[i].due = @ - 1,
                              !.items[i].at = "out",
                              !.section = IF shouldRemoveSection THEN "out" ELSE @]
        /\ feedLog' = [feedLog EXCEPT
             !.reflows = @ + 1,
             !.last = [sec |-> richSection,
                       clean |-> \A j \in Items \ {i} :
                                   feed.items[j].at = "section" => feed.items[j].marked,
                       gone |-> shouldRemoveSection]]
  /\ UNCHANGED lifeVars /\ FeedRest

\* The timer of debouncedGridReflow fires.
FireDebounce ==
  /\ life.debounce = 1
  /\ life' = [life EXCEPT !.debounce = 0]
  /\ feed' = Settled(feed)
  /\ feedLog' = [feedLog EXCEPT !.reflows = @ + 1, !.done = TRUE]
  /\ UNCHANGED lifeLog /\ FeedRest

\* 50 ms pass; no timer is due.
Tick ==
  /\ life.debounce # 1
  /\ \A i \in Items : feed.rem[i].due = 0
  /\ life.debounce > 1 \/ \E i \in Items : feed.rem[i].soon > 0
  /\ life' = [life EXCEPT !.debounce = IF @ > 1 THEN @ - 1 ELSE @]
  /\ feed' = [Settled(feed) EXCEPT
                !.rem = [i \in Items |-> [due |-> feed.rem[i].soon, soon |-> 0]]]
  /\ UNCHANGED <<lifeLog, feedLog>> /\ FeedRest

-----------------------------------------------------------------------------
(* Specifications *)

\* A payload on the heap, removeAdData not yet called.
InitHeap(in) ==
  /\ heap = BuildHeap(in)
  /\ heap0 = BuildHeap(in)
  /\ heap1 = BuildHeap(in)
  /\ stack = <<>>
  /\ sanPc = "idle"
  /\ sanCaller = "none"
  /\ sanArg = RootValue(in)
  /\ sanRet = Undefined
  /\ sanSt = "none"
  /\ sanSt1 = "none"
  /\ sanCalls = 0

\* var _ytInitialPlayerResponse; nothing assigned or read yet.
InitTrapVars ==
  /\ ytStored = Undefined
  /\ trapWrites = 0
  /\ trapLastWritten = Undefined
  /\ trapThrew = FALSE
  /\ trapRead = [fresh |-> FALSE, v |-> Undefined]
  /\ ytPrior = Undefined

\* The storage when the accessor has been defined over a configurable property
\* that held prior: var _ytInitialPlayerResponse, without a value.
TrapStorage_prior(prior) == prior
TrapStorage(prior) == Undefined

\* The accessor defined on a window whose ytInitialPlayerResponse held prior;
\* nothing assigned or read since.
InitTrapOver(prior) ==
  /\ ytStored = TrapStorage(prior)
  /\ trapWrites = 0
  /\ trapLastWritten = Undefined
  /\ trapThrew = FALSE
  /\ trapRead = [fresh |-> FALSE, v |-> Undefined]
  /\ ytPrior = prior

InitNetVars == fetchCall = FetchIdle /\ xhr = XhrIdle

\* A detector that has processed no sample, on a page without ad signals.
DetFresh ==
  [lastAdState |-> FALSE, consecutiveAdDetections |-> 0, userWasMuted |-> FALSE,
   userPlaybackRate |-> 1]
LogNone ==
  [pos |-> FALSE, was |-> FALSE, commit |-> FALSE, exit |-> FALSE, duration |-> NaN,
   effects |-> <<>>]

LifeLogNone == [idle |-> FALSE, fresh |-> FALSE, first |-> FALSE]

InitDet(b, muted, rate, duration, skip) ==
  /\ build = b
  /\ det = DetFresh
  /\ video = [muted |-> muted, playbackRate |-> rate, currentTime |-> 0,
              duration |-> duration]
  /\ dom = [player |-> TRUE, stream |-> TRUE, adClass |-> FALSE, adElem |-> "none",
            skip |-> skip]
  /\ log = LogNone
  /\ hist = <<>>
  /\ preAd = [muted |-> muted, playbackRate |-> rate]
  /\ resume = ResumeFresh
  /\ life = AutoInit(b, dom, TRUE)
  /\ lifeLog = LifeLogNone
  /\ feed = FeedFresh
  /\ cls = NodeNone
  /\ feedLog = FeedLogNone

InitDetVars == InitDet("v140", FALSE, 1, NaN, "none")

\* A document the script has not been loaded into; outside SpecLoad nothing
\* of the document matters but that the layers are in place.
InitLoadVars ==
  /\ env = [yt |-> "absent", fetch |-> "writable", xhr |-> "ok"]
  /\ win = WinFresh
  /\ win1 = WinFresh
  /\ loads = 0

\* removeAdData alone, on every payload of SanInputs.
InitSan == (\E in \in SanInputs : InitHeap(in)) /\ InitTrapVars /\ InitNetVars /\ InitLoadVars /\ InitDetVars
NextSan == SanCall \/ SanStep
SpecSan == InitSan /\ [][NextSan]_vars

\* The accessor: the page holds the objects of one payload and assigns and
\* reads the property.
TrapInputs == { in \in SanInputs : in.wrap = 0 /\ in.tree \in TwistBase \cup Probes }
InitTrap ==
  /\ \E in \in TrapInputs :
       InitHeap(in) /\ \E prior \in {Undefined, RootValue(in)} : InitTrapOver(prior)
  /\ InitNetVars /\ InitLoadVars /\ InitDetVars
NextTrap ==
  \/ \E v \in TrapValues : TrapSet(v)
  \/ SanStep
  \/ TrapSetEnd
  \/ TrapGet
SpecTrap == InitTrap /\ [][NextTrap]_vars

\* The two request wrappers.  They share no state, so one request is in
\* flight at a time.
InitNet ==
  /\ InitHeap([tree |-> Leaf("undefined"), wrap |-> 0, tw |-> "none", at |-> 1])
  /\ InitTrapVars /\ InitNetVars /\ InitLoadVars /\ InitDetVars
NextNet ==
  \/ \E url \in Urls \cup {<<>>} : XhrOpen(url)
  \/ XhrPageListen
  \/ XhrSend
  \/ \E resp \in Responses : XhrLoad(resp)
  \/ XhrDispatch
  \/ XhrSgEnd
  \/ XhrPageRead
  \/ XhrDone
  \/ \E input \in FetchInputs : FetchCall(input)
  \/ \E resp \in Responses : FetchRespond(resp)
  \/ FetchText
  \/ FetchTextEnd
  \/ FetchPageRead
  \/ FetchDone
  \/ SanStep
SpecNet == InitNet /\ [][NextNet]_vars

\* The detector of either script on a watch page, for every mute flag and rate
\* the user has set, every duration and every state of the skip control.
InitDetector ==
  /\ InitHeap([tree |-> Leaf("undefined"), wrap |-> 0, tw |-> "none", at |-> 1])
  /\ InitTrapVars /\ InitNetVars /\ InitLoadVars
  /\ \E b \in {"v140", "legacy"}, muted \in BOOLEAN, rate \in Rates \ {16},
        duration \in Durations, skip \in SkipStates :
       InitDet(b, muted, rate, duration, skip)
NextDetector ==
  \/ Sample
  \/ SampleAbsent
  \/ Observed
  \/ FireResume
  \/ \E player, stream, adClass \in BOOLEAN, adElem \in AdElems :
       Signal(player, stream, adClass, adElem)
SpecDetector == InitDetector /\ [][NextDetector]_vars

\* The poll timer of setupAdDetection keeps firing, and a resume timer that
\* is pending fires.
SpecDetectorFair == SpecDetector /\ WF_vars(Sample) /\ WF_vars(FireResume)

\* The detector of either script with a user who pauses and plays the video
\* and a browser that may reject play().
InitResume ==
  /\ InitHeap([tree |-> Leaf("undefined"), wrap |-> 0, tw |-> "none", at |-> 1])
  /\ InitTrapVars /\ InitNetVars /\ InitLoadVars
  /\ \E b \in {"v140", "legacy"}, muted \in BOOLEAN :
       InitDet(b, muted, 1, 150, "none")
NextResume ==
  \/ Sample
  \/ SampleAbsent
  \/ Observed
  \/ \E present, ad \in BOOLEAN :
       Signal(present, present, ad, IF ad THEN "module" ELSE "none")
  \/ FireResume
  \/ \E ok \in BOOLEAN : PlaySettled(ok)
  \/ \E paused \in BOOLEAN : Pause(paused)
SpecResume == InitResume /\ [][NextResume]_vars

\* The lifecycle of either detector, from the end of the script on a watch
\* page or another page, the player and the video there or not yet.
InitLife ==
  /\ InitHeap([tree |-> Leaf("undefined"), wrap |-> 0, tw |-> "none", at |-> 1])
  /\ InitTrapVars /\ InitNetVars /\ InitLoadVars
  /\ \E b \in {"v140", "legacy"}, watch, player, stream \in BOOLEAN :
       /\ build = b
       /\ det = DetFresh
       /\ video = [muted |-> FALSE, playbackRate |-> 1, currentTime |-> 0,
                   duration |-> 150]
       /\ dom = [player |-> player, stream |-> stream, adClass |-> FALSE,
                 adElem |-> "none", skip |-> "none"]
       /\ log = LogNone
       /\ hist = <<>>
       /\ preAd = [muted |-> FALSE, playbackRate |-> 1]
       /\ resume = ResumeFresh
       /\ life = AutoInit(b, dom, watch)
       /\ lifeLog = LifeLogNone
       /\ feed = FeedFresh
       /\ cls = NodeNone
       /\ feedLog = FeedLogNone
NextLife ==
  \/ \E evt \in {"yt-navigate-finish", "popstate"}, toWatch \in BOOLEAN :
       Navigate(evt, toWatch)
  \/ CheckPlayer
  \/ InitCall
  \/ Cleanup
  \/ Destroy
  \/ \E player, stream \in BOOLEAN : Signal(player, stream, FALSE, "none")
SpecLife == InitLife /\ [][NextLife]_vars

\* The timers of SpecLife keep firing.
SpecLifeFair == SpecLife /\ WF_vars(CheckPlayer)

\* Navigations between pages on which the detector samples ad signals.
NextNav ==
  \/ \E evt \in {"yt-navigate-finish", "popstate"}, toWatch \in BOOLEAN :
       Navigate(evt, toWatch)
  \/ CheckPlayer
  \/ Sample
  \/ Observed
  \/ SampleAbsent
  \/ FireResume
  \/ \E present, ad \in BOOLEAN :
       Signal(present, present, ad, IF ad THEN "module" ELSE "none")
SpecNav == InitLife /\ [][NextNav]_vars

\* The feed monitor on a page other than a watch page, the feed empty.
InitFeed ==
  /\ InitHeap([tree |-> Leaf("undefined"), wrap |-> 0, tw |-> "none", at |-> 1])
  /\ InitTrapVars /\ InitNetVars /\ InitLoadVars
  /\ build = "legacy"
  /\ det = DetFresh
  /\ video = [muted |-> FALSE, playbackRate |-> 1, currentTime |-> 0, duration |-> NaN]
  /\ dom = [player |-> FALSE, stream |-> FALSE, adClass |-> FALSE, adElem |-> "none",
            skip |-> "none"]
  /\ log = LogNone
  /\ hist = <<>>
  /\ preAd = [muted |-> FALSE, playbackRate |-> 1]
  /\ resume = ResumeFresh
  /\ life = AutoInit("legacy", dom, FALSE)
  /\ lifeLog = LifeLogNone
  /\ feed = FeedFresh
  /\ cls = NodeNone
  /\ feedLog = FeedLogNone
NextFeed ==
  \/ \E batch \in [Items -> Inserts \ {"label"}], loose \in BOOLEAN :
       Insert(batch, loose)
  \/ \E i \in Items : FireRemoval(i)
  \/ FireDebounce
  \/ Tick
SpecFeed == InitFeed /\ [][NextFeed]_vars

\* The feed monitor on a grid whose items get buttons with labels.
NextFeedLabel ==
  \/ \E batch \in [Items -> {"skip", "grid-ad", "grid-plain", "label"}] :
       Insert(batch, FALSE)
  \/ \E i \in Items : FireRemoval(i)
  \/ FireDebounce
  \/ Tick
SpecFeedLabel == InitFeed /\ [][NextFeedLabel]_vars

\* Time passes and due timers fire.
\* checkIfSponsored alone: the observer is handed any element of Elements.
Classified(e) ==
  /\ life.feedObservers > 0
  /\ cls' = [e |-> e, called |-> TRUE, verdict |-> checkIfSponsored(e)]
  /\ UNCHANGED <<feed, feedLog, lifeVars, loadVars, detVars, sanVars, trapVars, netVars>>
NextClassify == \E e \in Elements : Classified(e)
SpecClassify == InitFeed /\ [][NextClassify]_vars

SpecFeedFair ==
  /\ SpecFeed
  /\ WF_vars(Tick) /\ WF_vars(FireDebounce)
  /\ \A i \in Items : WF_vars(FireRemoval(i))

\* Loads of the script files into every document of Envs.
InitLoad ==
  /\ InitHeap([tree |-> Leaf("undefined"), wrap |-> 0, tw |-> "none", at |-> 1])
  /\ InitTrapVars /\ InitNetVars /\ InitDetVars
  /\ env \in Envs
  /\ win = WinFresh
  /\ win1 = WinFresh
  /\ loads = 0
NextLoad == \E file \in ScriptFiles : Load(file)
SpecLoad == InitLoad /\ [][NextLoad]_vars

-----------------------------------------------------------------------------
(* Properties of removeAdData, under SpecSan *)

\* A direct removeAdData call on the payload is over.
SanOver == sanCaller = "san" /\ sanPc = "done"

\* C1: selective deletion.  After removeAdData on a payload of nested maps,
\* sequences and scalars, every node within 15 references of the root on a
\* path that crosses no registry key holds exactly its non-registry
\* properties, with their original values, in their original order; so no
\* such node has an own registry key.
C1_SelectiveDeletion ==
  (SanOver /\ PlainTree(heap0)) =>
    \A n \in KeptWithin15(heap0, sanArg) : heap[n].ents = NonAd(heap0[n].ents)

\* C3: depth bound.  After removeAdData on a payload that has nodes more than
\* 16 references below the root, no error was raised and those nodes are as
\* they were, registry keys included.
C3_DepthBound ==
  (SanOver /\ PlainTree(heap0)) =>
    LET deep == Reach(heap0, sanArg) \ Within16(heap0, sanArg)
    IN deep # {} => (sanSt = "ok" /\ \A n \in deep : heap[n] = heap0[n])

\* C4: termination.  removeAdData never runs out of stack: its recursion is
\* bounded on every payload, a payload with a reference cycle included.
C4_Termination == sanSt # "RangeError"

\* C5: idempotence.  A second removeAdData on the same payload leaves the heap
\* as the first call left it and ends as the first ended; removeAdData on a
\* payload without registry keys changes nothing.
C5_Idempotence ==
  /\ (SanOver /\ sanCalls >= 2) => (heap = heap1 /\ sanSt = sanSt1)
  /\ (SanOver /\ ~HasAdKey(heap0, sanArg)) => heap = heap0

\* A second call is over on a payload the first call changed.
C5_Witness ==
  /\ SanOver /\ sanCalls = 2 /\ sanSt = "ok"
  /\ heap # heap0
  /\ IsObject(sanRet)

\* C6: in place, no cloning.  removeAdData returns the value it was given; no
\* node is created, and every node keeps its kind and what is left of its
\* properties: same values, same attributes, same order.
C6_InPlace ==
  /\ (SanOver /\ sanSt = "ok") => sanRet = sanArg
  /\ sanCaller = "san" =>
       /\ Len(heap) = Len(heap0)
       /\ \A n \in DOMAIN heap :
            heap[n].arr = heap0[n].arr /\ OnlyDeleted(heap[n].ents, heap0[n].ents)

\* A call that deleted something returned an object that still has children.
C6_Witness ==
  /\ SanOver /\ sanSt = "ok"
  /\ heap # heap0
  /\ IsObject(sanRet) /\ Grow(heap, FALSE, Root(sanRet)) # Root(sanRet)

-----------------------------------------------------------------------------
(* Properties of the accessor, under SpecTrap *)

\* C7: page-global trap.  Once a write has returned, the value written has no
\* registry key at any depth, and a read made since returns that value.
C7_TrapReadsLastWrite ==
  (sanPc = "idle" /\ trapWrites >= 1) =>
    /\ ~HasAdKey(heap, trapLastWritten)
    /\ trapRead.fresh => trapRead.v = trapLastWritten

\* C13: error containment.  No assignment to ytInitialPlayerResponse throws
\* into the page, whatever the value (an object with a registry key that
\* cannot be deleted and a cyclic object included), and no call of the
\* wrapped fetch throws synchronously.
C13_ErrorContainment == ~trapThrew /\ fetchCall.pc # "threw"

-----------------------------------------------------------------------------
(* Properties of the request wrappers, under SpecNet *)

\* The fetch call has delivered a response to the page.
FetchSettled == fetchCall.pc \in {"settled", "read"}

\* The request has completed.
XhrLoaded == xhr.pc \in {"dispatch", "done", "read"}

\* C2: ordering.  On a request to the player endpoint, whatever body page
\* code reads (the fetch response's body, responseText in a readystatechange
\* listener or later) contains no registry key.
C2_Ordering ==
  /\ (fetchCall.pc = "read" /\ fetchCall.url.def /\ PlayerGate(fetchCall.url.u)
        /\ ~MediaHost(fetchCall.url.u) /\ IsJsonCT(fetchCall.resp.ctype))
       => ~TextHasAdKey(fetchCall.saw)
  /\ PlayerGate(xhr.sgUrl) => \A i \in DOMAIN xhr.saw : ~TextHasAdKey(xhr.saw[i])

\* The URL names the player, browse or video-info endpoint and carries no
\* "/next" marker.
CapabilityGate(url) ==
  /\ \/ Contains(url, "/youtubei/v1/player")
     \/ Contains(url, "/youtubei/v1/browse")
     \/ Contains(url, "/get_video_info")
  /\ ~Contains(url, "/next")

\* C8: interception gate.  A delivered body differs from the original only
\* when the URL passes the capability gate; when it does not (a "/next"
\* marker included, whatever else the URL holds), fetch delivers the original
\* response and responseText stays the original text for every reader.
C8_InterceptionGate ==
  /\ FetchSettled =>
       /\ ~fetchCall.out.orig => (fetchCall.url.def /\ CapabilityGate(fetchCall.url.u))
       /\ ~(fetchCall.url.def /\ CapabilityGate(fetchCall.url.u))
            => fetchCall.out = Delivered(TRUE, fetchCall.resp)
  /\ xhr.overridden => CapabilityGate(xhr.sgUrl)
  /\ (XhrLoaded /\ ~CapabilityGate(xhr.sgUrl)) =>
       /\ xhr.responseText = xhr.resp.body
       /\ \A i \in DOMAIN xhr.saw : xhr.saw[i] = xhr.resp.body

\* A JSON response with ad data, to a URL with both the player marker and the
\* "/next" marker, was delivered as the original.
C8_Witness ==
  /\ fetchCall.pc = "settled"
  /\ fetchCall.url.def
  /\ Contains(fetchCall.url.u, "/youtubei/v1/player")
  /\ Contains(fetchCall.url.u, "/next")
  /\ ~MediaHost(fetchCall.url.u)
  /\ IsJsonCT(fetchCall.resp.ctype)
  /\ TextHasAdKey(fetchCall.resp.body)
  /\ fetchCall.out = Delivered(TRUE, fetchCall.resp)

\* C9: content-type gate.  A response whose content type is not the JSON type
\* is neither decoded nor modified, on fetch and on XMLHttpRequest.
C9_ContentTypeGate ==
  /\ (FetchSettled /\ ~IsJsonCT(fetchCall.resp.ctype)) =>
       (~fetchCall.read /\ fetchCall.out = Delivered(TRUE, fetchCall.resp))
  /\ (XhrLoaded /\ ~IsJsonCT(xhr.resp.ctype)) =>
       (~xhr.decoded /\ ~xhr.overridden /\ xhr.responseText = xhr.resp.body)

\* C10: media pass-through.  The response of a request whose URL contains
\* googlevideo.com is never read, decoded or modified, on fetch and on
\* XMLHttpRequest.
C10_MediaPassThrough ==
  /\ (fetchCall.url.def /\ MediaHost(fetchCall.url.u)) =>
       /\ ~fetchCall.read
       /\ FetchSettled => fetchCall.out = Delivered(TRUE, fetchCall.resp)
  /\ MediaHost(xhr.sgUrl) =>
       /\ ~xhr.touched /\ ~xhr.decoded /\ ~xhr.overridden
       /\ XhrLoaded => xhr.responseText = xhr.resp.body

\* C11: decode failure pass-through.  When the body of a response that passed
\* the gates is not well-formed JSON, fetch gives the page the original
\* response (status, headers and body as they came) and responseText stays
\* the original text for every reader; neither mechanism raises an error.
C11_DecodeFailure ==
  /\ (FetchSettled /\ fetchCall.read /\ fetchCall.resp.body.kind # "json") =>
       fetchCall.out = Delivered(TRUE, fetchCall.resp)
  /\ (fetchCall.read /\ fetchCall.resp.body.kind # "json") => fetchCall.pc # "threw"
  /\ (XhrLoaded /\ xhr.resp.body.kind # "json") =>
       /\ ~xhr.overridden
       /\ xhr.responseText = xhr.resp.body
       /\ \A i \in DOMAIN xhr.saw : xhr.saw[i] = xhr.resp.body

\* The text of a response that passed the gates failed to decode and the
\* page has the original response.
C11_Witness ==
  /\ fetchCall.pc = "settled" /\ fetchCall.read
  /\ fetchCall.resp.body.kind = "garbage"
  /\ fetchCall.out = Delivered(TRUE, fetchCall.resp)

\* C12: reconstructed response.  A response fetch rebuilt after sanitizing has
\* the original status, status text and headers other than content-length,
\* and a content-length equal to the size in bytes of its body.
C12_ReconstructedResponse ==
  (FetchSettled /\ ~fetchCall.out.orig) =>
    /\ fetchCall.out.resp.status = fetchCall.resp.status
    /\ fetchCall.out.resp.statusText = fetchCall.resp.statusText
    /\ fetchCall.out.resp.ctype = fetchCall.resp.ctype
    /\ fetchCall.out.resp.etag = fetchCall.resp.etag
    /\ fetchCall.out.resp.clen = Bytes(fetchCall.out.resp.body)

-----------------------------------------------------------------------------
(* Properties of the script load, under SpecLoad *)

\* C14: hook independence.  After a load, every layer whose installation did
\* not throw is installed, whichever of the other layers threw, and the
\* detector object exists.
C14_HookIndependence ==
  loads >= 1 =>
    /\ env.yt # "locked" => win.trap = 1
    /\ env.fetch = "writable" => win.fetchWraps = 1
    /\ env.xhr = "ok" => (win.openWraps = 1 /\ win.sendWraps = 1)
    /\ win.skipper = 1
    /\ ~win.uncaught

\* Two layers threw and the third is installed beside the detector.
C14_Witness ==
  /\ loads >= 1
  /\ env.yt = "locked" /\ env.fetch = "readonly" /\ env.xhr = "ok"
  /\ win.errors = {"trap", "fetch"}
  /\ win.sendWraps = 1 /\ win.skipper = 1

\* C15: initialization guard.  Whatever files are loaded after the first, in
\* whatever number, window stays as the first body evaluated left it: each
\* hook, the pattern export and the detector are installed at most once, and
\* the second body of youtube-ads-blocker.js installs nothing.
C15_InitGuard ==
  loads >= 1 =>
    /\ win = win1
    /\ win.flag /\ win.patterns = 1 /\ win.skipper <= 1
    /\ win.trap <= 1 /\ win.fetchWraps <= 1
    /\ win.openWraps <= 1 /\ win.sendWraps <= 1
    /\ win.build \in {"part_000", "js_1"}

\* A later load has run on a document in which every hook is installed.
C15_Witness ==
  /\ loads >= 2
  /\ win.fetchWraps = 1 /\ win.sendWraps = 1 /\ win.trap = 1
  /\ win.build = "js_1"

-----------------------------------------------------------------------------
(* The ad detector *)

\* A step of the detector that processes a sample (every other step of
\* NextDetector changes dom or takes a resume timer away).
Sampling == dom' = dom /\ Present(dom) /\ resume'.timers >= resume.timers

\* C16: a sample counts as an ad only when the player has an ad class and a
\* corroborating ad element is present; an ad class alone, or an element
\* alone, never counts as an ad sample.
C16_ConfirmedAdPredicate ==
  [][(Sampling /\ log'.pos) => (dom.adClass /\ dom.adElem # "none")]_vars

\* C17: in the v1.4.0 detector, starting in Content, the ad state is committed
\* (preferences saved, video muted, lastAdState set) on the second of two
\* consecutive positive samples and on no other sample: never on the first
\* sample, and a negative sample in between starts the count again.
C17_TwoSampleConfirmation ==
  build = "v140" =>
    /\ \A k \in 2..Len(hist) :
         ~hist[k].was => (hist[k].commit <=> (hist[k].pos /\ hist[k-1].pos))
    /\ (Len(hist) >= 1 /\ Len(hist) < Window) => ~hist[1].commit
    /\ log.commit =>
         /\ det.lastAdState /\ video.muted
         /\ det.userWasMuted = preAd.muted
         /\ det.userPlaybackRate = preAd.playbackRate
    /\ (log.pos /\ ~log.was /\ ~log.commit) =>
         /\ ~det.lastAdState
         /\ video.muted = preAd.muted /\ video.playbackRate = preAd.playbackRate

\* [false, true, true]: no commit on the second sample, commit on the third.
C17_Witness ==
  /\ build = "v140" /\ Len(hist) = 3
  /\ ~hist[1].pos /\ ~hist[1].was
  /\ hist[2].pos /\ ~hist[2].commit
  /\ hist[3].pos /\ hist[3].commit

\* [true, false, true]: no commit at all.
C17_WitnessReset ==
  /\ build = "v140" /\ Len(hist) = 3
  /\ hist[1].pos /\ ~hist[1].was /\ ~hist[1].commit
  /\ ~hist[2].pos
  /\ hist[3].pos /\ ~hist[3].commit

\* C18: on entering the ad state the detector records the video's mute flag
\* and playback rate as they were before it forced mute, and on the next exit
\* from the ad state it sets both back to exactly those values, for every
\* pre-ad mute flag and every pre-ad rate.
C18_SaveRestore ==
  /\ log.commit => (video.muted /\ det.userWasMuted = preAd.muted)
  /\ log.exit => (video.muted = preAd.muted /\ video.playbackRate = preAd.playbackRate)

\* Where the latest sample did e, in the order of its effects (0: nowhere).
At(e) ==
  IF \E i \in DOMAIN log.effects : log.effects[i] = e
  THEN CHOOSE i \in DOMAIN log.effects : log.effects[i] = e
  ELSE 0

\* C19: in every skip attempt the detector first tries to click a displayed
\* skip control, and raises the playback rate, to 16 and never above, only
\* afterwards and only when no skip control was clicked.
C19_SkipOrder ==
  /\ video.playbackRate <= 16
  /\ At("rate") > 0 =>
       /\ At("tryClick") > 0 /\ At("tryClick") < At("rate")
       /\ At("click") = 0
       /\ video.playbackRate = 16

\* C20: the detector writes the video's play position only when the duration
\* is defined and shorter than 30 seconds; for a duration of 30 seconds or
\* more it never writes it, in any state and on any sample.
C20_SafeSeek ==
  /\ At("seek") > 0 => (log.duration # NaN /\ log.duration < 300)
  /\ video.currentTime # 0 => (video.duration # NaN /\ video.duration < 300)

\* C21: on every sample processed while the detector is already in the ad
\* state and the sample is positive, the detector performs both a skip attempt
\* and the removal of the ad-overlay elements, also when a skip control is
\* found and clicked.
C21_RepeatWhileInAd ==
  (log.pos /\ log.was) => (At("tryClick") > 0 /\ At("overlays") > 0)

\* The confirmed ad signal: an ad class on the player and a corroborating
\* element.
Confirmed_Ad == dom.adClass /\ dom.adElem # "none"

\* C22: with the detector initialized on a watch page, if the confirmed ad
\* signal changes and then stays constant while the player and the video are
\* present, the detector comes to reflect it (in the ad state and muted, or out
\* of it with the mute flag restored) through the poll timer alone.
C22_PollBackstop ==
  /\ <>[](Present(dom) /\ Confirmed_Ad) => <>[](det.lastAdState /\ video.muted)
  /\ <>[](Present(dom) /\ ~Confirmed_Ad)
       => <>[](~det.lastAdState /\ video.muted = preAd.muted)

-----------------------------------------------------------------------------
(* The lifecycle *)

\* C23: once a navigation event (yt-navigate-finish or popstate) has been
\* handled the detector is in the initial state, lastAdState false and the
\* confirmation count 0, whatever its state before; the first sample processed
\* afterwards is neither the continuation nor the exit of an ad.
C23_NavigationReset ==
  /\ lifeLog.fresh => (~det.lastAdState /\ det.consecutiveAdDetections = 0)
  /\ lifeLog.first => (~log.was /\ ~log.exit)

\* A navigation handled while an ad was committed (the video is still muted).
C23_Witness ==
  /\ lifeLog.fresh /\ video.muted /\ ~det.lastAdState

\* The first sample after such a navigation, positive.
C23_WitnessFirst ==
  /\ lifeLog.first /\ video.muted /\ log.pos /\ ~log.was

\* C24: after cleanup() has returned, and until init() is called again, no
\* interval timer, no mutation observer and no debounce timer created by the
\* detector is active, so that no detection sample runs, whatever sequence of
\* init, navigation and player-ready events came before.
C24_CleanupAsUnit ==
  lifeLog.idle =>
    /\ life.intervals = 0 /\ life.observers = 0 /\ life.feedObservers = 0
    /\ life.debounce = 0

\* C25: cleanup() is idempotent, in every reachable state two calls in a row
\* leave the state one call leaves, and destroy() leaves the state cleanup()
\* leaves with isInitialized false.
C25_LifecycleHooks ==
  /\ cleanup(cleanup(life)) = cleanup(life)
  /\ destroy(life) = [cleanup(life) EXCEPT !.isInitialized = FALSE]

\* cleanup() has returned on an initialized detector: a second call changes
\* nothing, destroy() would still clear isInitialized.
C25_Witness ==
  /\ lifeLog.idle /\ life.isInitialized
  /\ ~life.checkInterval /\ ~life.observer /\ ~life.feedObserver
  /\ cleanup(life) = life /\ destroy(life) # life

\* A state in which cleanup() has an observer and a timer to release.
C25_WitnessBefore ==
  /\ life.isInitialized /\ life.checkInterval /\ life.observer
  /\ cleanup(life) # life

\* C26: a promise of waitForPlayer is not resolved while the player container
\* or the video element is missing, is resolved at most once, and is resolved
\* eventually if both elements come to exist and stay.
C26_PlayerReadyWait ==
  /\ [][life'.resolved > life.resolved => Present(dom)]_vars
  /\ [](life.promises = life.waits + life.resolved)
  /\ <>[]Present(dom) => <>[](life.waits = 0)

\* One promise resolved, another still polling because an element is missing.
C26_Witness ==
  /\ life.resolved > 0 /\ life.waits > 0 /\ ~Present(dom)

-----------------------------------------------------------------------------
(* The feed monitor *)

\* C27: for a burst of n >= 1 sponsored insertions within one 150 ms debounce
\* window the feed monitor invokes forceGridReflow exactly once, not once per
\* removed node.
C27_DebounceCoalescing ==
  feedLog.done => (feedLog.ads >= 1 /\ feedLog.reflows = 1)

\* Item i is out of the document.
Gone(i) ==
  \/ feed.items[i].at = "out"
  \/ feed.items[i].at = "section" /\ feed.section = "out"

\* C28: every inserted node classified as sponsored is eventually removed from
\* the document, with its nearest grid item when it has one, and by itself
\* when it has none.
C28_RemovalOnMatch ==
  /\ \A i \in Items : feed.items[i].marked ~> Gone(i)
  /\ (feed.loose = "in") ~> (feed.loose = "out")

\* C29: when a grid item is removed, its section is removed with it if and
\* only if the section then holds no grid item other than that one and ones
\* that carry the marker; a section that holds an item without the marker is
\* never removed, however the deferred removals interleave.
C29_SectionCollapse ==
  /\ feedLog.last.gone <=> (feedLog.last.sec /\ feedLog.last.clean)
  /\ feed.section = "out" =>
       \A i \in Items : feed.items[i].at = "section" => feed.items[i].marked

\* A removal that took the section along, another item with the marker still
\* in it.
C29_Witness ==
  /\ feedLog.last.gone /\ feed.section = "out"
  /\ \E i \in Items : feed.items[i].at = "section" /\ feed.items[i].marked

\* A removal that left the section because an item without the marker is in it.
C29_WitnessKept ==
  /\ feedLog.last.sec /\ ~feedLog.last.gone /\ feed.section = "in"
  /\ \E i \in Items : feed.items[i].at = "section" /\ ~feed.items[i].marked

\* C30: every grid item the feed monitor removes got the marker attribute in
\* an earlier task; no item is removed in the task that marks it, and no item
\* without the marker is removed.
C30_MarkBeforeRemove ==
  /\ [](\A i \in Items : Gone(i) => (feed.items[i].marked /\ ~feed.items[i].fresh))
  /\ [][\A i \in Items : (Gone(i)' /\ ~Gone(i)) => feed.items[i].marked]_vars

\* An item removed by its own timer, and an item removed with its section.
C30_Witness ==
  /\ \E i \in Items : feed.items[i].at = "out"
  /\ \E i \in Items : feed.items[i].at = "section" /\ feed.section = "out"

\* The words of a label: the maximal runs of letters.
isLetter(c) == c \in Range(UpperCase) \cup Range(LowerCase)
Words(s) ==
  {SubSeq(s, a, b) : <<a, b>> \in
     {w \in (1..Len(s)) \X (1..Len(s)) :
        /\ w[1] <= w[2]
        /\ \A k \in w[1]..w[2] : isLetter(s[k])
        /\ w[1] = 1 \/ ~isLetter(s[w[1] - 1])
        /\ w[2] = Len(s) \/ ~isLetter(s[w[2] + 1])}}
hasAdToken(e) ==
  \E w \in Words(e.label) : toLowerCase(w) \in {Txt_sponsored, Txt_ad}

\* C31: checkIfSponsored(e) is true exactly when e's tag is an ad container
\* tag, or e has an ad-container ancestor, or e's text holds a sponsor marker
\* and e has a badge descendant, or e's accessible label holds the word
\* "sponsored" or "ad" in any case; every other element is organic.
C31_LayeredClassification ==
  cls.called =>
    (cls.verdict <=>
       (isAdTag(cls.e) \/ hasAdAncestor(cls.e) \/ hasBadgeText(cls.e)
          \/ hasAdToken(cls.e)))

\* C39: an element that matches none of the tag, ancestor and badge layers and
\* whose label holds the letters "ad" only inside a longer word is classified
\* as organic, and the feed monitor marks and removes no grid item because of it.
C39_NoLabelSubstringMatch ==
  \A i \in Items : (feed.items[i].marked \/ Gone(i)) => feed.items[i].ad

\* C32: whatever init() calls and navigations have happened, the document holds
\* exactly one style block with the detector's id, and the injection called
\* while the block exists changes nothing.
C32_StyleInjectionIdempotent ==
  life.styles = 1 /\ injectAdBlockingCSS(life) = life

\* init() has run its body a second time in youtube-ads-blocker.js, where it
\* calls the injection.
C32_Witness == build = "legacy" /\ life.listeners >= 2 /\ life.styles = 1

\* What a step does to the resume timers and what a rejection leaves alone.
ResumeStep ==
  /\ (det.lastAdState /\ ~det'.lastAdState) <=> (resume'.timers = resume.timers + 1)
  /\ resume'.timers <= resume.timers + 1
  /\ (resume'.pending < resume.pending /\ resume'.paused)
       => (det' = det /\ video' = video)

\* C33: a sample that leaves the ad state schedules one resume timer and no
\* other step schedules one; the timer calls play() only if the video is
\* paused when it fires; a rejected play() changes no field of the detector
\* and reports no error.
C33_ResumeAfterAd ==
  /\ [][ResumeStep]_vars
  /\ [](resume.fired.play <=> resume.fired.paused)
  /\ [](resume.errors = 0)

\* A timer found the video paused and called play(), the play() was rejected
\* and the video is still paused.
C33_Witness ==
  /\ resume.fired.play /\ resume.pending = 0 /\ resume.paused /\ log.exit
  /\ resume.timers = 0

\* A timer found the video playing.
C33_WitnessPlaying == resume.fired.any /\ ~resume.fired.paused

\* C34: a sample processed in Content that is negative (no ad class, or no
\* ad element) writes nothing to the video, schedules no timer and leaves
\* lastAdState false.
C34_RespectUserControls ==
  [][(Sampling /\ ~det.lastAdState /\ ~Confirmed_Ad)
       => (video' = video /\ resume' = resume /\ ~det'.lastAdState)]_vars

\* C35: after any sequence of script load, init(), navigation events and
\* player-ready resolutions the detector has at most one live poll interval,
\* one live player observer and one live feed observer, and one navigation
\* listener per event, however often init() has been called.
C35_SingleInstance ==
  /\ life.intervals <= 1 /\ life.observers <= 1 /\ life.feedObservers <= 1
  /\ life.listeners <= 1

\* C36: the user of SpecNav plays unmuted at rate 1 and never changes that.
\* Whatever navigations were handled, once a sample has found the ad signal
\* clear and the detector is in Content the video is unmuted at rate 1, and
\* in the ad state the saved preferences are the user's, not the forced values.
C36_NoForcedStateLeft ==
  /\ (~lifeLog.fresh /\ ~log.pos /\ ~det.lastAdState /\ ~dom.adClass
       /\ dom.adElem = "none")
       => (~video.muted /\ video.playbackRate = 1)
  /\ det.lastAdState
       => (~det.userWasMuted /\ (build = "v140" => det.userPlaybackRate = 1))

\* C37: from the return of cleanup() or destroy() until init() is called
\* again no step installs an observer or a poll interval or sets
\* isInitialized, also when a player-ready wait of an earlier init() is still
\* pending and the player appears.
C37_NoRevival ==
  [][(lifeLog.idle /\ lifeLog'.idle)
       => /\ life'.observers <= life.observers
          /\ life'.intervals <= life.intervals
          /\ life'.isInitialized => life.isInitialized]_vars

\* C38: if window.ytInitialPlayerResponse held a payload when the accessor was
\* defined, a read before any assignment returns that payload, not undefined.
C38_TrapPreservesValue ==
  (trapRead.fresh /\ trapWrites = 0 /\ ytPrior # Undefined) => trapRead.v = ytPrior

====
